---- MODULE Spec2Model ----
(***************************************************************************)
(* Model of discord_webhook.py: the Embed data model (validation and wire  *)
(* serialization), the persistence codec of the history / templates /      *)
(* webhook-settings stores, and the editor session of PremiumEmbedDesigner *)
(* (field editing, templates, history, the send_webhook flow).             *)
(*                                                                         *)
(* Python strings are sequences of one-character strings, so that strip,   *)
(* startswith and int(.., 16) are computed and not assumed.  Python        *)
(* objects that the program aliases (Embed instances, field lists) live in *)
(* a heap and are referred to by reference.                                *)
(***************************************************************************)
EXTENDS Integers, Sequences, FiniteSets, TLC

(***************************************************************************)
(* Program constants                                                       *)
(***************************************************************************)
MAX_TITLE == 256
MAX_DESC == 4096
MAX_FIELDS == 25
MAX_FIELD_NAME == 256
MAX_FIELD_VALUE == 1024
MAX_FOOTER == 2048
MAX_AUTHOR == 256
HISTORY_KEEP == 50
DEFAULT_COLOR == <<"#", "5", "8", "6", "5", "F", "2">>

(***************************************************************************)
(* str methods                                                             *)
(***************************************************************************)
IsSpace(c) == c \in {" ", "\t", "\n"}

\* s.lstrip(): from the first place that holds no whitespace on
LStrip(s) ==
    IF \A i \in 1..Len(s) : IsSpace(s[i]) THEN <<>>
    ELSE SubSeq(s, CHOOSE i \in 1..Len(s) :
                       ~IsSpace(s[i]) /\ \A j \in 1..(i - 1) : IsSpace(s[j]),
                Len(s))

\* s.rstrip(): up to the last place that holds no whitespace
RStrip(s) ==
    IF \A i \in 1..Len(s) : IsSpace(s[i]) THEN <<>>
    ELSE SubSeq(s, 1, CHOOSE i \in 1..Len(s) :
                          ~IsSpace(s[i]) /\ \A j \in (i + 1)..Len(s) : IsSpace(s[j]))

Strip(s) == RStrip(LStrip(s))

RECURSIVE LStripChar(_, _)
LStripChar(s, c) == IF s # <<>> /\ Head(s) = c THEN LStripChar(Tail(s), c) ELSE s

Startswith(s, p) == Len(s) >= Len(p) /\ SubSeq(s, 1, Len(p)) = p

RECURSIVE Contains(_, _)
Contains(s, p) ==
    IF Len(s) < Len(p) THEN FALSE
    ELSE Startswith(s, p) \/ Contains(Tail(s), p)

HTTP == <<"h", "t", "t", "p", ":", "/", "/">>
HTTPS == <<"h", "t", "t", "p", "s", ":", "/", "/">>

\* x.startswith('http://') or x.startswith('https://')
\* any non-empty value let through
IsNonEmpty(s) == s # <<>>

\* s.startswith(('http://', 'https://'))
IsHttp(s) == Startswith(s, HTTP) \/ Startswith(s, HTTPS)

HexVal ==
    ("0" :> 0) @@ ("1" :> 1) @@ ("2" :> 2) @@ ("3" :> 3) @@ ("4" :> 4) @@
    ("5" :> 5) @@ ("6" :> 6) @@ ("7" :> 7) @@ ("8" :> 8) @@ ("9" :> 9) @@
    ("a" :> 10) @@ ("b" :> 11) @@ ("c" :> 12) @@ ("d" :> 13) @@ ("e" :> 14) @@
    ("f" :> 15) @@ ("A" :> 10) @@ ("B" :> 11) @@ ("C" :> 12) @@ ("D" :> 13) @@
    ("E" :> 14) @@ ("F" :> 15)

RECURSIVE DecDigits(_, _)
\* the digits read in base 10
DecDigits(s, acc) ==
    IF s = <<>> THEN acc
    ELSE IF Head(s) = "_" THEN DecDigits(Tail(s), acc)
    ELSE DecDigits(Tail(s), acc * 10 + HexVal[Head(s)])

RECURSIVE HexDigits(_, _)
\* value of a run of hex digits with single "_" separators, acc carried in
HexDigits(s, acc) ==
    IF s = <<>> THEN acc
    ELSE IF Head(s) = "_" THEN HexDigits(Tail(s), acc)
    ELSE HexDigits(Tail(s), acc * 16 + HexVal[Head(s)])

\* the digit part int() accepts: non-empty, hex digits, "_" only between digits
\* (or right after a 0x prefix)
WellFormedDigits(s, afterPrefix) ==
    /\ s # <<>>
    /\ \A i \in 1..Len(s) : s[i] \in DOMAIN HexVal \cup {"_"}
    /\ s[Len(s)] # "_"
    /\ (s[1] = "_" => afterPrefix)
    /\ \A i \in 1..(Len(s) - 1) : ~(s[i] = "_" /\ s[i + 1] = "_")

\* int(s, 16) of a text t without whitespace around it
PyInt16Stripped(t) ==
    LET signed == t # <<>> /\ t[1] \in {"+", "-"}
        sgn == IF signed /\ t[1] = "-" THEN -1 ELSE 1
        u == IF signed THEN Tail(t) ELSE t
        prefixed == Len(u) >= 2 /\ u[1] = "0" /\ u[2] \in {"x", "X"}
        v == IF prefixed THEN SubSeq(u, 3, Len(u)) ELSE u
    IN  IF WellFormedDigits(v, prefixed)
        THEN [ok |-> TRUE, val |-> sgn * HexDigits(v, 0)]
        ELSE [ok |-> FALSE, val |-> 0]

\* int(s, 16): [ok |-> FALSE] stands for ValueError
PyInt16(s) == PyInt16Stripped(Strip(s))

(***************************************************************************)
(* dict helpers                                                            *)
(***************************************************************************)
EmptyDict == <<>>

Put(d, k, v) == [j \in DOMAIN d \cup {k} |-> IF j = k THEN v ELSE d[j]]

\* d.get(k, default)
Get(d, k, default) == IF k \in DOMAIN d THEN d[k] ELSE default

\* a raised exception, as a value
Raised(name) == [cls |-> name]
IsRaised(x) == "cls" \in DOMAIN x /\ x.cls \in {"TypeError", "ValueError"}

(***************************************************************************)
(* EmbedField                                                              *)
(***************************************************************************)
FieldKeys == {"name", "value", "inline"}

\* EmbedField(**f): name and value are required, inline defaults to False
NewEmbedField(kw) ==
    IF "cls" \in DOMAIN kw
    THEN Raised("TypeError")      \* argument after ** must be a mapping
    ELSE IF ~(DOMAIN kw \subseteq FieldKeys) \/ ~({"name", "value"} \subseteq DOMAIN kw)
    THEN Raised("TypeError")
    ELSE [cls |-> "EmbedField", name |-> kw.name, value |-> kw.value,
          inline |-> Get(kw, "inline", FALSE)]

EmbedField(name, value, inline) ==
    [cls |-> "EmbedField", name |-> name, value |-> value, inline |-> inline]

\* validation that returns at the first rule broken
FieldValidateFirst(f) ==
    IF Strip(f.name) = <<>> THEN << <<"Field name cannot be empty">> >>
    ELSE IF Len(f.name) > MAX_FIELD_NAME
    THEN << <<"Field name too long", Len(f.name), MAX_FIELD_NAME>> >>
    ELSE IF Strip(f.value) = <<>> THEN << <<"Field value cannot be empty">> >>
    ELSE IF Len(f.value) > MAX_FIELD_VALUE
    THEN << <<"Field value too long", Len(f.value), MAX_FIELD_VALUE>> >>
    ELSE <<>>

FieldValidate(f) ==
    (IF Strip(f.name) = <<>> THEN << <<"Field name cannot be empty">> >> ELSE <<>>)
    \o (IF Len(f.name) > MAX_FIELD_NAME
        THEN << <<"Field name too long", Len(f.name), MAX_FIELD_NAME>> >> ELSE <<>>)
    \o (IF Strip(f.value) = <<>> THEN << <<"Field value cannot be empty">> >> ELSE <<>>)
    \o (IF Len(f.value) > MAX_FIELD_VALUE
        THEN << <<"Field value too long", Len(f.value), MAX_FIELD_VALUE>> >> ELSE <<>>)

(***************************************************************************)
(* Embed                                                                   *)
(***************************************************************************)
EmbedKeys ==
    {"title", "description", "color", "url", "footer", "footer_icon", "author",
     "author_icon", "author_url", "thumbnail", "image", "timestamp", "fields"}

EmbedDefaults ==
    [title |-> <<>>, description |-> <<>>, color |-> DEFAULT_COLOR, url |-> <<>>,
     footer |-> <<>>, footer_icon |-> <<>>, author |-> <<>>, author_icon |-> <<>>,
     author_url |-> <<>>, thumbnail |-> <<>>, image |-> <<>>, timestamp |-> FALSE,
     fields |-> <<>>]

\* Embed(**kw): every attribute has a default, an unknown keyword is a TypeError
NewEmbed(kw) ==
    IF ~(DOMAIN kw \subseteq EmbedKeys)
    THEN Raised("TypeError")
    ELSE [k \in EmbedKeys \cup {"cls"} |->
            IF k = "cls" THEN "Embed"
            ELSE IF k \in DOMAIN kw THEN kw[k] ELSE EmbedDefaults[k]]

RECURSIVE FieldErrors(_, _)
\* the per-field loop of Embed.validate, from 1-based position i on
FieldErrors(fs, i) ==
    IF i > Len(fs) THEN <<>>
    ELSE LET errs == FieldValidate(fs[i])
         IN  [j \in 1..Len(errs) |-> <<"Field", i, errs[j]>>] \o FieldErrors(fs, i + 1)

\* validation that returns at the count of the fields, the fields unread
EmbedValidateShort(e) ==
    IF Len(e.fields) > MAX_FIELDS
    THEN << <<"Too many fields", Len(e.fields), MAX_FIELDS>> >>
    ELSE FieldErrors(e.fields, 1)

EmbedValidate(e) ==
    (IF e.title # <<>> /\ Len(e.title) > MAX_TITLE
     THEN << <<"Title too long", Len(e.title), MAX_TITLE>> >> ELSE <<>>)
    \o (IF e.description # <<>> /\ Len(e.description) > MAX_DESC
        THEN << <<"Description too long", Len(e.description), MAX_DESC>> >> ELSE <<>>)
    \o (IF e.footer # <<>> /\ Len(e.footer) > MAX_FOOTER
        THEN << <<"Footer too long", Len(e.footer), MAX_FOOTER>> >> ELSE <<>>)
    \o (IF e.author # <<>> /\ Len(e.author) > MAX_AUTHOR
        THEN << <<"Author too long", Len(e.author), MAX_AUTHOR>> >> ELSE <<>>)
    \o (IF Len(e.fields) > MAX_FIELDS
        THEN << <<"Too many fields", Len(e.fields), MAX_FIELDS>> >> ELSE <<>>)
    \o FieldErrors(e.fields, 1)

\* the footer object of to_dict
FooterDict(e) ==
    LET d0 == EmptyDict
        d1 == IF e.footer # <<>> THEN Put(d0, "text", e.footer) ELSE d0
        d2 == IF e.footer_icon # <<>> /\ IsHttp(e.footer_icon)
              THEN Put(d1, "icon_url", e.footer_icon) ELSE d1
    IN  d2

\* the author object of to_dict
AuthorDict(e) ==
    LET d0 == EmptyDict
        d1 == IF e.author # <<>> THEN Put(d0, "name", e.author) ELSE d0
        d2 == IF e.author_icon # <<>> /\ IsHttp(e.author_icon)
              THEN Put(d1, "icon_url", e.author_icon) ELSE d1
        d3 == IF e.author_url # <<>> /\ IsHttp(e.author_url)
              THEN Put(d2, "url", e.author_url) ELSE d2
    IN  d3

\* the color value of to_dict
ColorInt(color) ==
    IF Startswith(color, <<"#">>) THEN PyInt16(LStripChar(color, "#"))
    ELSE [ok |-> TRUE, val |-> 0]

\* the text of one fixed instant
IsoFormatEpoch(now) == [iso |-> 0]

\* datetime.utcnow().isoformat() at clock reading now
IsoFormat(now) == [iso |-> now]

\* the field list written last field first
FieldsToDictsReversed(fs) ==
    [i \in 1..Len(fs) |->
        [name |-> fs[Len(fs) + 1 - i].name, value |-> fs[Len(fs) + 1 - i].value,
         inline |-> fs[Len(fs) + 1 - i].inline]]

\* the list comprehension of to_dict over self.fields
FieldsToDicts(fs) ==
    [i \in 1..Len(fs) |->
        [name |-> fs[i].name, value |-> fs[i].value, inline |-> fs[i].inline]]

\* Embed.to_dict at clock reading now: the payload, or the raised ValueError
ToDict(e, now) ==
    LET r0 == EmptyDict
        r1 == IF e.title # <<>> THEN Put(r0, "title", e.title) ELSE r0
        r2 == IF e.description # <<>> THEN Put(r1, "description", e.description) ELSE r1
        r3 == IF e.url # <<>> /\ IsHttp(e.url) THEN Put(r2, "url", e.url) ELSE r2
        r4 == IF e.color # <<>> THEN Put(r3, "color", ColorInt(e.color).val) ELSE r3
        r5 == IF e.footer # <<>> \/ e.footer_icon # <<>>
              THEN Put(r4, "footer", FooterDict(e)) ELSE r4
        r6 == IF e.author # <<>> \/ e.author_icon # <<>> \/ e.author_url # <<>>
              THEN Put(r5, "author", AuthorDict(e)) ELSE r5
        r7 == IF e.thumbnail # <<>> /\ IsHttp(e.thumbnail)
              THEN Put(r6, "thumbnail", [url |-> e.thumbnail]) ELSE r6
        r8 == IF e.image # <<>> /\ IsHttp(e.image)
              THEN Put(r7, "image", [url |-> e.image]) ELSE r7
        r9 == IF e.timestamp THEN Put(r8, "timestamp", IsoFormat(now)) ELSE r8
        r10 == IF e.fields # <<>>
               THEN Put(r9, "fields", FieldsToDicts(e.fields))
               ELSE r9
    IN  IF e.color # <<>> /\ ~ColorInt(e.color).ok THEN Raised("ValueError") ELSE r10

(***************************************************************************)
(* Persistence codec: dataclasses.asdict and the keyword reconstruction    *)
(***************************************************************************)
\* asdict of one EmbedField
FieldAsDict(f) == [name |-> f.name, value |-> f.value, inline |-> f.inline]

\* asdict(embed): a dict of the 13 attributes, the fields as a list of dicts
AsDict(e) ==
    [k \in EmbedKeys |->
        IF k = "fields" THEN [i \in 1..Len(e.fields) |-> FieldAsDict(e.fields[i])]
        ELSE e[k]]

\* [EmbedField(**f) for f in items]: ok with the list, or not ok (an exception)
FieldsFromDicts(items) ==
    LET made == [i \in 1..Len(items) |-> NewEmbedField(items[i])]
    IN  IF \E i \in 1..Len(made) : IsRaised(made[i])
        THEN [ok |-> FALSE, val |-> <<>>]
        ELSE [ok |-> TRUE, val |-> made]

\* the fields left as the dicts json.load gave
DecodeEmbedRaw(item) == NewEmbed(item)

\* one item of load_history: fields rebuilt, then Embed(**item)
DecodeEmbed(item) ==
    LET fields == FieldsFromDicts(Get(item, "fields", <<>>))
    IN  IF ~fields.ok THEN Raised("TypeError")
        ELSE NewEmbed(Put(item, "fields", fields.val))

\* json.dump of the history: the stored document
HistoryDocument(embeds) == [kind |-> "json", data |-> [i \in 1..Len(embeds) |-> AsDict(embeds[i])]]

\* s[:n], the slice taken from the wrong end
FirstN(s, n) == IF Len(s) <= n THEN s ELSE SubSeq(s, 1, n)

\* s[-n:]
LastN(s, n) == IF Len(s) <= n THEN s ELSE SubSeq(s, Len(s) - n + 1, Len(s))

\* the body of load_history's try block on a readable document: every item
\* decoded in order, or not ok when one of them raises
DecodeHistory(data) ==
    LET made == [i \in 1..Len(data) |-> DecodeEmbed(data[i])]
    IN  IF \E i \in 1..Len(made) : IsRaised(made[i])
        THEN [ok |-> FALSE, val |-> <<>>]
        ELSE [ok |-> TRUE, val |-> made]

\* the except handler leaving the items appended before the failure
LoadHistoryKeepDecoded(file, before) ==
    IF file.kind = "absent" THEN before
    ELSE IF file.kind # "json" THEN <<>>
    ELSE LET made == [i \in 1..Len(file.data) |-> DecodeEmbed(file.data[i])]
             bad == {i \in 1..Len(made) : IsRaised(made[i])}
         IN  IF bad = {} THEN made
             ELSE SubSeq(made, 1, (CHOOSE i \in bad : \A j \in bad : i <= j) - 1)

\* self.history after load_history, from the history it had: unchanged when the
\* file does not exist, [] on any exception
LoadHistory(file, before) ==
    IF file.kind = "absent" THEN before
    ELSE IF file.kind # "json" THEN <<>>
    ELSE DecodeHistory(file.data).val

(***************************************************************************)
(* MessageButton                                                           *)
(***************************************************************************)
MAX_BUTTON_LABEL == 80
MAX_BUTTONS == 5
MAX_MENUS == 1
MAX_OPTIONS == 25

UPPER ==
    <<"A", "B", "C", "D", "E", "F", "G", "H", "I", "J", "K", "L", "M",
      "N", "O", "P", "Q", "R", "S", "T", "U", "V", "W", "X", "Y", "Z">>

LOWER ==
    <<"a", "b", "c", "d", "e", "f", "g", "h", "i", "j", "k", "l", "m",
      "n", "o", "p", "q", "r", "s", "t", "u", "v", "w", "x", "y", "z">>

\* s.lower()
Lower(s) ==
    [i \in 1..Len(s) |->
        IF \E k \in 1..26 : UPPER[k] = s[i]
        THEN LOWER[CHOOSE k \in 1..26 : UPPER[k] = s[i]]
        ELSE s[i]]

\* s.replace(a, b), a and b one character each
Replace(s, a, b) == [i \in 1..Len(s) |-> IF s[i] = a THEN b ELSE s[i]]

\* MessageButton(label=..., url=..., style=..., emoji=..., disabled=...)
MessageButton(label, url, style, emoji, disabled) ==
    [cls |-> "MessageButton", label |-> label, url |-> url, style |-> style,
     emoji |-> emoji, disabled |-> disabled]

style_map == ("primary" :> 1) @@ ("secondary" :> 2) @@ ("success" :> 3) @@ ("danger" :> 4)

\* the identifier with the label as typed
CustomIdAsTyped(label) == <<"b", "t", "n", "_">> \o Replace(label, " ", "_")

\* f"btn_{self.label.lower().replace(' ', '_')}"
CustomId(label) == <<"b", "t", "n", "_">> \o Replace(Lower(label), " ", "_")

\* MessageButton.to_dict
ButtonToDict(b) ==
    LET r0 == [type |-> 2]
        r1 == IF b.label # <<>> THEN Put(r0, "label", b.label) ELSE r0
        r2 == IF b.style = "link" /\ b.url # <<>>
              THEN Put(Put(r1, "style", 5), "url", b.url)
              ELSE Put(Put(r1, "style", Get(style_map, b.style, 1)),
                       "custom_id", CustomId(b.label))
        r3 == IF b.emoji # <<>> /\ Strip(b.emoji) # <<>>
              THEN Put(r2, "emoji", [name |-> b.emoji]) ELSE r2
        r4 == IF b.disabled THEN Put(r3, "disabled", TRUE) ELSE r3
    IN  r4

\* validation that does not look at the URL
ButtonValidateLabelOnly(b) ==
    (IF b.label = <<>> THEN << <<"Button label is required">> >> ELSE <<>>)
    \o (IF Len(b.label) > MAX_BUTTON_LABEL
        THEN << <<"Button label too long", Len(b.label), MAX_BUTTON_LABEL>> >> ELSE <<>>)

\* MessageButton.validate
ButtonValidate(b) ==
    (IF b.label = <<>> THEN << <<"Button label is required">> >> ELSE <<>>)
    \o (IF Len(b.label) > MAX_BUTTON_LABEL
        THEN << <<"Button label too long", Len(b.label), MAX_BUTTON_LABEL>> >> ELSE <<>>)
    \o (IF b.style = "link" /\ b.url = <<>>
        THEN << <<"Link buttons require a URL">> >> ELSE <<>>)

(***************************************************************************)
(* Bounds of the model                                                     *)
(***************************************************************************)
MaxOps == 7           \* user operations of one explored editor session (Spec)
MaxSends == 52        \* successful sends of the sending session (SpecSends)
MaxDocs == 2          \* items of a stored history document read back (SpecModel)
MaxClock == 1         \* clock readings 0..MaxClock
MaxOver == 1          \* fields over MAX_FIELDS of an embed to validate
MaxMoves == 3         \* moves applied to a list of fields (SpecModel)
MaxOrder == 4         \* positions 1..MaxOrder tried by a move

(***************************************************************************)
(* State                                                                   *)
(***************************************************************************)
VARIABLES
    embedObj,           \* heap: reference -> Embed instance (fields: a list reference)
    listObj,            \* heap: reference -> list object (of EmbedField or of dict)
    current_embed,      \* self.current_embed, a reference
    history,            \* self.history, a list of references
    templates,          \* self.templates, a list of dicts
    webhook_settings,   \* self.webhook_settings
    ui,                 \* the entry widgets of the editor
    history_file,       \* embed_history.json
    templates_file,     \* templates.json
    settings_file,      \* webhook_settings.json
    pc,                 \* where the UI thread waits: idle, or inside a modal dialog
    dlg,                \* locals of the handler that waits
    obs,                \* what the last handler did: its name, the POSTs issued
    ops,                \* user operations performed so far
    probe               \* input / output of the data-model functions (SpecModel)

vars == <<embedObj, listObj, current_embed, history, templates, webhook_settings,
          ui, history_file, templates_file, settings_file, pc, dlg, obs, ops, probe>>

heapVars == <<embedObj, listObj>>
fileVars == <<history_file, templates_file, settings_file>>

(***************************************************************************)
(* Heap                                                                    *)
(***************************************************************************)
\* a reference not in use
NewRef(heap) == CHOOSE n \in 0..Cardinality(DOMAIN heap) : n \notin DOMAIN heap

\* the Embed instance r with its field list read through the heap
Deref(eo, lo, r) == [eo[r] EXCEPT !.fields = lo[eo[r].fields]]

\* list references held by the templates
TemplateLists(ts) ==
    {ts[i].embed.fields : i \in {j \in 1..Len(ts) : "fields" \in DOMAIN ts[j].embed}}

\* position of the first occurrence of x in s
FirstIdx(s, x) ==
    LET at == {i \in 1..Len(s) : s[i] = x}
    IN  CHOOSE i \in at : \A j \in at : i <= j

\* the template dict t with its list reference renamed to its first place in ls
RenameTemplate(t, ls) ==
    IF "fields" \in DOMAIN t.embed
    THEN [t EXCEPT !.embed = Put(t.embed, "fields", FirstIdx(ls, t.embed.fields) - 1)]
    ELSE t

\* The next state of the object graph: the objects reachable from the roots
\* cur (current embed), hist (history) and ts (templates) in the heaps eo, lo.
\* Unreachable objects are collected, and references, which the program never
\* inspects, are renamed to the place of first reach (es for embeds, ls for
\* lists), so that two heaps that differ only in the naming are one state.
Commit(eo, lo, cur, hist, ts) ==
    \E es \in {<<cur>> \o hist} :
    \E ls \in {[i \in 1..Len(es) |-> eo[es[i]].fields] \o
                [i \in 1..Len(ts) |->
                    IF "fields" \in DOMAIN ts[i].embed THEN ts[i].embed.fields
                    ELSE eo[cur].fields]} :
        /\ embedObj' = [n \in {FirstIdx(es, es[i]) - 1 : i \in 1..Len(es)} |->
                           [eo[es[n + 1]] EXCEPT !.fields = FirstIdx(ls, @) - 1]]
        /\ listObj' = [n \in {FirstIdx(ls, ls[i]) - 1 : i \in 1..Len(ls)} |->
                          lo[ls[n + 1]]]
        /\ current_embed' = 0
        /\ history' = [i \in 1..Len(hist) |-> FirstIdx(es, hist[i]) - 1]
        /\ templates' = [i \in 1..Len(ts) |-> RenameTemplate(ts[i], ls)]

\* copy.deepcopy(embed r): <<new embed heap, new list heap, new reference>>
DeepCopy(eo, lo, r) ==
    LET nr == NewRef(eo)
        nl == NewRef(lo)
    IN  <<Put(eo, nr, [eo[r] EXCEPT !.fields = nl]), Put(lo, nl, lo[eo[r].fields]), nr>>

\* an Embed value e placed in the heap: <<embed heap, list heap, reference>>
Alloc(eo, lo, e) ==
    LET nr == NewRef(eo)
        nl == NewRef(lo)
    IN  <<Put(eo, nr, [e EXCEPT !.fields = nl]), Put(lo, nl, e.fields), nr>>

\* the Embed values es placed, in order, in heaps eo and lo whose references
\* are 0..n-1: <<embed heap, list heap, the new references>>
AllocAll(eo, lo, es) ==
    LET ne == Cardinality(DOMAIN eo)
        nl == Cardinality(DOMAIN lo)
        n == Len(es)
    IN  << [r \in 0..(ne + n - 1) |->
               IF r < ne THEN eo[r] ELSE [es[r - ne + 1] EXCEPT !.fields = nl + (r - ne)]],
           [l \in 0..(nl + n - 1) |->
               IF l < nl THEN lo[l] ELSE es[l - nl + 1].fields],
           [i \in 1..n |-> ne + i - 1] >>

(***************************************************************************)
(* Editor widgets                                                          *)
(***************************************************************************)
StrKeys == EmbedKeys \ {"timestamp", "fields"}

UiDefaults == [k \in EmbedKeys \ {"fields"} |-> EmbedDefaults[k]]

\* sync_embed_from_ui: attribute assignments on the current embed object
SyncEmbedFromUi(eo, cur, u) ==
    [eo EXCEPT ![cur] =
        [k \in DOMAIN @ |->
            IF k = "color" THEN (IF Strip(u.color) = <<>> THEN DEFAULT_COLOR ELSE Strip(u.color))
            ELSE IF k \in StrKeys THEN Strip(u[k])
            ELSE IF k = "timestamp" THEN u.timestamp
            ELSE @[k]]]

\* load_embed_to_ui: the widgets filled from the embed e
LoadEmbedToUi(e) == [k \in EmbedKeys \ {"fields"} |-> e[k]]

(***************************************************************************)
(* Stores                                                                  *)
(***************************************************************************)
Absent == [kind |-> "absent"]
Corrupt == [kind |-> "corrupt"]      \* not parseable as JSON
Json(data) == [kind |-> "json", data |-> data]

DefaultSettings == [url |-> <<>>, username |-> <<>>, avatar_url |-> <<>>]

\* load_webhook_settings
LoadWebhookSettings(file) ==
    IF file.kind = "json" THEN file.data ELSE DefaultSettings

\* the whole list written, the slice forgotten
SaveHistoryUncut(eo, lo, h) ==
    HistoryDocument([i \in 1..Len(h) |-> Deref(eo, lo, h[i])])

\* save_history: the document written from the history list h
SaveHistory(eo, lo, h) ==
    HistoryDocument([i \in 1..Len(LastN(h, HISTORY_KEEP)) |->
                        Deref(eo, lo, LastN(h, HISTORY_KEEP)[i])])

\* a template read from / written to templates.json has its field list inline;
\* in memory the list is an object of the heap
RECURSIVE AllocTemplates(_, _, _)
AllocTemplates(lo, docs, acc) ==
    IF docs = <<>> THEN <<lo, acc>>
    ELSE LET t == Head(docs)
         IN  IF "fields" \in DOMAIN t.embed
             THEN LET nl == NewRef(lo)
                  IN  AllocTemplates(Put(lo, nl, t.embed.fields), Tail(docs),
                          Append(acc, [t EXCEPT !.embed = Put(t.embed, "fields", nl)]))
             ELSE AllocTemplates(lo, Tail(docs), Append(acc, t))

\* the template t as json.dump sees it
TemplateValue(lo, t) ==
    IF "fields" \in DOMAIN t.embed
    THEN [t EXCEPT !.embed = Put(t.embed, "fields", lo[t.embed.fields])]
    ELSE t

\* json.dump raises TypeError on an EmbedField instance
Serializable(tv) ==
    "fields" \in DOMAIN tv.embed =>
        \A i \in 1..Len(tv.embed.fields) : "cls" \notin DOMAIN tv.embed.fields[i]

\* save_templates: the file is truncated on open; a TypeError in json.dump is
\* logged and leaves it with an incomplete document
SaveTemplates(lo, ts) ==
    LET tvs == [i \in 1..Len(ts) |-> TemplateValue(lo, ts[i])]
    IN  IF \A i \in 1..Len(tvs) : Serializable(tvs[i]) THEN Json(tvs) ELSE Corrupt

NoDlg == [kind |-> "none"]
NoProbe == [kind |-> "none"]

NoResp == [kind |-> "none", status |-> 0]

\* obs: op, the handler that ran last; posts, the POSTs the last send_webhook
\* issued; resp, the answer it received; sent, the successful sends since the
\* history was last empty
Did(op, posts) == [obs EXCEPT !.op = op, !.posts = posts]

(***************************************************************************)
(* __init__: an empty current embed, the three stores loaded, and the first *)
(* auto_save (sync_embed_from_ui on the fresh widgets)                      *)
(***************************************************************************)
Construct(hf, tf, sf) ==
    LET cur == Alloc(EmptyDict, EmptyDict, NewEmbed(EmptyDict))
        loaded == AllocAll(cur[1], cur[2], LoadHistory(hf, <<>>))
        ts == AllocTemplates(loaded[2], IF tf.kind = "json" THEN tf.data ELSE <<>>, <<>>)
    IN  [eo |-> SyncEmbedFromUi(loaded[1], cur[3], UiDefaults),
         lo |-> ts[1],
         cur |-> cur[3],
         hist |-> loaded[3],
         ts |-> ts[2],
         webhook_settings |-> LoadWebhookSettings(sf)]

(***************************************************************************)
(* Inputs of the model: what the user types, what the stores hold at start *)
(***************************************************************************)
TitleInputs == {<<" ", "B">>}

AddInputs ==
    {[name |-> <<"n">>, value |-> <<"v">>, inline |-> TRUE],
     [name |-> <<" ">>, value |-> <<"v">>, inline |-> FALSE]}

EditInputs == {[name |-> <<"m", " ">>, value |-> <<"w">>, inline |-> FALSE]}

\* stored embed documents: written by this version, by an older one (keys
\* missing), by a newer one (a key this version does not know), by hand
DocA == AsDict(NewEmbed([title |-> <<"A">>]))
DocOld == [title |-> <<"O">>]
DocOldField == [title |-> <<"O">>, fields |-> << [name |-> <<"n">>, value |-> <<"v">>] >>]
DocNewer == Put(DocA, "video", <<"x">>)
DocNewerField ==
    Put(DocA, "fields", << [name |-> <<"n">>, value |-> <<"v">>, inline |-> TRUE,
                            emoji |-> <<"x">>] >>)
DocBlankField ==
    Put(DocA, "fields", << [name |-> <<"n">>, value |-> <<" ">>, inline |-> FALSE] >>)

HistoryFiles == {Absent, Json(<<DocBlankField>>)}

TemplatesFiles == {Absent}

SettingsFiles == {Absent}

Quiet == [Did("other", 0) EXCEPT !.resp = NoResp]

LongTitle == [i \in 1..(MAX_TITLE + 1) |-> "x"]

DigitChar == <<"0", "1", "2", "3", "4", "5", "6", "7", "8", "9">>

RECURSIVE Digits(_)
\* the decimal numeral of n, as the user types it
Digits(n) ==
    IF n < 10 THEN <<DigitChar[n + 1]>>
    ELSE Digits(n \div 10) \o <<DigitChar[(n % 10) + 1]>>

TypeOK ==
    /\ current_embed \in DOMAIN embedObj
    /\ \A i \in 1..Len(history) : history[i] \in DOMAIN embedObj
    /\ \A r \in DOMAIN embedObj : embedObj[r].fields \in DOMAIN listObj
    /\ TemplateLists(templates) \subseteq DOMAIN listObj
    /\ pc \in {"idle", "addField", "editField", "gallery", "historyDlg",
               "askValidation", "sendDialog", "askDebug", "posting", "successBox"}

\* the program constructed over the stores it finds
ConstructedOver ==
    /\ LET c == Construct(history_file, templates_file, settings_file)
       IN  /\ embedObj = c.eo
           /\ listObj = c.lo
           /\ current_embed = c.cur
           /\ history = c.hist
           /\ templates = c.ts
           /\ webhook_settings = c.webhook_settings
    /\ ui = UiDefaults
    /\ pc = "idle"
    /\ dlg = NoDlg
    /\ obs = [op |-> "other", posts |-> 0, sent |-> 0, resp |-> NoResp]
    /\ ops = 0

Constructed ==
    /\ history_file \in HistoryFiles
    /\ templates_file \in TemplatesFiles
    /\ settings_file \in SettingsFiles
    /\ ConstructedOver

Init ==
    /\ Constructed
    /\ probe = NoProbe

(***************************************************************************)
(* Editor handlers                                                         *)
(***************************************************************************)
CurFields == listObj[embedObj[current_embed].fields]

\* the user edits the title entry
TypeTitle(s) ==
    /\ pc = "idle"
    /\ ui.title # s
    /\ ui' = [ui EXCEPT !.title = s]
    /\ obs' = Quiet
    /\ UNCHANGED <<heapVars, current_embed, history, templates, webhook_settings,
                   fileVars, pc, dlg, probe>>

\* the auto-save timer fires; Tk runs it whenever the UI thread is in an event
\* loop, the nested loop of a modal dialog included
AutoSave ==
    /\ embedObj' = SyncEmbedFromUi(embedObj, current_embed, ui)
    /\ UNCHANGED <<listObj, current_embed, history, templates, webhook_settings, ui,
                   fileVars, pc, dlg, obs, ops, probe>>

\* the UI thread is in an event loop, the main one or that of a modal dialog:
\* it is not inside the blocking requests.post
InEventLoopAlways == TRUE

InEventLoop == pc # "posting"

\* start_auto_save, the callback of the timer set with after(): runs auto_save
\* on the UI thread when the event loop dispatches it; probe keeps where the
\* thread was waiting
StartAutoSave ==
    /\ InEventLoop
    /\ embedObj' = SyncEmbedFromUi(embedObj, current_embed, ui)
    /\ probe' = [kind |-> "timer", at |-> pc]
    /\ UNCHANGED <<listObj, current_embed, history, templates, webhook_settings, ui,
                   fileVars, pc, dlg, obs, ops>>

\* add_field_dialog
OpenAddField ==
    /\ pc = "idle"
    /\ pc' = IF Len(CurFields) >= MAX_FIELDS THEN "idle" ELSE "addField"
    /\ dlg' = NoDlg
    /\ obs' = Quiet
    /\ UNCHANGED <<heapVars, current_embed, history, templates, webhook_settings, ui,
                   fileVars, probe>>

\* what add_field / save_field accept
FieldAccepted(in) ==
    /\ Strip(in.name) # <<>>
    /\ Strip(in.value) # <<>>
    /\ FieldValidate(EmbedField(Strip(in.name), Strip(in.value), in.inline)) = <<>>

\* add_field, the dialog's Add button
AddField(in) ==
    /\ pc = "addField"
    /\ IF FieldAccepted(in)
       THEN /\ listObj' = [listObj EXCEPT ![embedObj[current_embed].fields] =
                              Append(@, EmbedField(Strip(in.name), Strip(in.value), in.inline))]
            /\ embedObj' = SyncEmbedFromUi(embedObj, current_embed, ui)
            /\ pc' = "idle"
       ELSE UNCHANGED <<heapVars, pc>>
    /\ obs' = Quiet
    /\ UNCHANGED <<current_embed, history, templates, webhook_settings, ui, fileVars,
                   dlg, probe>>

\* edit_field_dialog(index)
OpenEditField(i) ==
    /\ pc = "idle"
    /\ i \in 1..Len(CurFields)
    /\ pc' = "editField"
    /\ dlg' = [kind |-> "editField", index |-> i]
    /\ obs' = Quiet
    /\ UNCHANGED <<heapVars, current_embed, history, templates, webhook_settings, ui,
                   fileVars, probe>>

\* save_field, the dialog's Save button
SaveField(in) ==
    /\ pc = "editField"
    /\ IF FieldAccepted(in)
       THEN /\ listObj' = [listObj EXCEPT ![embedObj[current_embed].fields][dlg.index] =
                              EmbedField(Strip(in.name), Strip(in.value), in.inline)]
            /\ embedObj' = SyncEmbedFromUi(embedObj, current_embed, ui)
            /\ pc' = "idle"
            /\ dlg' = NoDlg
       ELSE UNCHANGED <<heapVars, pc, dlg>>
    /\ obs' = Quiet
    /\ UNCHANGED <<current_embed, history, templates, webhook_settings, ui, fileVars,
                   probe>>

\* Cancel in the add / edit field dialog
CancelFieldDialog ==
    /\ pc \in {"addField", "editField"}
    /\ pc' = "idle"
    /\ dlg' = NoDlg
    /\ obs' = Quiet
    /\ UNCHANGED <<heapVars, current_embed, history, templates, webhook_settings, ui,
                   fileVars, probe>>

\* del s[i]
Remove(s, i) == SubSeq(s, 1, i - 1) \o SubSeq(s, i + 1, Len(s))

\* s[i], s[j] = s[j], s[i]
Swap(s, i, j) == [s EXCEPT ![i] = s[j], ![j] = s[i]]

\* delete_field(index), confirmed
DeleteField(i) ==
    /\ pc = "idle"
    /\ i \in 1..Len(CurFields)
    /\ listObj' = [listObj EXCEPT ![embedObj[current_embed].fields] = Remove(@, i)]
    /\ embedObj' = SyncEmbedFromUi(embedObj, current_embed, ui)
    /\ obs' = Quiet
    /\ UNCHANGED <<current_embed, history, templates, webhook_settings, ui, fileVars,
                   pc, dlg, probe>>

\* a move that assigns one side of the swap only
MovedUpOverwrite(fs, i) == IF i > 1 THEN [fs EXCEPT ![i - 1] = fs[i]] ELSE fs

\* the list after move_field_up(index), i the 1-based position
MovedUp(fs, i) == IF i > 1 THEN Swap(fs, i, i - 1) ELSE fs

\* the list after move_field_down(index)
MovedDown(fs, i) == IF i < Len(fs) THEN Swap(fs, i, i + 1) ELSE fs

MoveFieldUp(i) ==
    /\ pc = "idle"
    /\ i \in 1..Len(CurFields)
    /\ listObj' = [listObj EXCEPT ![embedObj[current_embed].fields] = MovedUp(@, i)]
    /\ embedObj' = IF i > 1 THEN SyncEmbedFromUi(embedObj, current_embed, ui) ELSE embedObj
    /\ obs' = Quiet
    /\ UNCHANGED <<current_embed, history, templates, webhook_settings, ui, fileVars,
                   pc, dlg, probe>>

MoveFieldDown(i) ==
    /\ pc = "idle"
    /\ i \in 1..Len(CurFields)
    /\ listObj' = [listObj EXCEPT ![embedObj[current_embed].fields] = MovedDown(@, i)]
    /\ embedObj' = IF i < Len(CurFields)
                   THEN SyncEmbedFromUi(embedObj, current_embed, ui) ELSE embedObj
    /\ obs' = Quiet
    /\ UNCHANGED <<current_embed, history, templates, webhook_settings, ui, fileVars,
                   pc, dlg, probe>>

\* clear_all, confirmed: a fresh Embed(), the widgets reset, then update_preview
ClearAll ==
    /\ pc = "idle"
    /\ LET a == Alloc(embedObj, listObj, NewEmbed(EmptyDict))
       IN  /\ ui' = UiDefaults
           /\ Commit(SyncEmbedFromUi(a[1], a[3], UiDefaults), a[2], a[3], history, templates)
    /\ obs' = Quiet
    /\ UNCHANGED <<webhook_settings, fileVars, pc, dlg, probe>>

(***************************************************************************)
(* Templates                                                               *)
(***************************************************************************)
\* add_default_templates: the three built-in templates.  Their texts are
\* shortened to one or two characters; keys, colors, flags and field counts
\* are the program's.
DefaultTemplateDocs ==
    << [name |-> "Announcement", description |-> "Server announcement template",
        embed |-> [title |-> <<"S", "A">>, description |-> <<"I">>,
                   color |-> <<"#", "5", "8", "6", "5", "F", "2">>,
                   footer |-> <<"P">>, timestamp |-> TRUE, fields |-> <<>>]],
       [name |-> "Welcome Message", description |-> "Welcome new members",
        embed |-> [title |-> <<"W">>, description |-> <<"W", "e">>,
                   color |-> <<"#", "3", "B", "A", "5", "5", "C">>,
                   fields |-> << [name |-> <<"R">>, value |-> <<"r">>, inline |-> TRUE],
                                 [name |-> <<"C">>, value |-> <<"g">>, inline |-> TRUE],
                                 [name |-> <<"H">>, value |-> <<"s">>, inline |-> TRUE] >>]],
       [name |-> "Server Status", description |-> "Display server statistics",
        embed |-> [title |-> <<"S", "S">>,
                   color |-> <<"#", "F", "A", "A", "6", "1", "A">>,
                   fields |-> << [name |-> <<"S">>, value |-> <<"O">>, inline |-> TRUE],
                                 [name |-> <<"P">>, value |-> <<"4">>, inline |-> TRUE],
                                 [name |-> <<"U">>, value |-> <<"7">>, inline |-> TRUE] >>,
                   footer |-> <<"L">>, timestamp |-> TRUE]] >>

\* a show_templates that lists what there is
ShowTemplatesFromAsIs(lo, ts, file) == <<lo, ts, file>>

\* the tail of show_templates: defaults added (and saved) when the list is
\* empty.  <<list heap, templates, templates file>>
ShowTemplatesFrom(lo, ts, file) ==
    IF ts = <<>>
    THEN LET a == AllocTemplates(lo, DefaultTemplateDocs, <<>>)
         IN  <<a[1], a[2], SaveTemplates(a[1], a[2])>>
    ELSE <<lo, ts, file>>

\* show_templates
ShowTemplates ==
    /\ pc = "idle"
    /\ LET r == ShowTemplatesFrom(listObj, templates, templates_file)
       IN  /\ templates_file' = r[3]
           /\ Commit(embedObj, r[1], current_embed, history, r[2])
    /\ pc' = "gallery"
    /\ obs' = Quiet
    /\ UNCHANGED <<webhook_settings, ui, history_file, settings_file, dlg, probe>>

\* the try block of load_template(template) up to the Embed construction:
\* ok |-> whether it completed, lo / t |-> the list heap and the template dict
\* as the block left them, e |-> the heap Embed built
LoadTemplateTry(lo, t) ==
    LET items == IF "fields" \in DOMAIN t.embed THEN lo[t.embed.fields] ELSE <<>>
        made == FieldsFromDicts(items)
        nl == NewRef(lo)
        lo2 == Put(lo, nl, made.val)
        t2 == [t EXCEPT !.embed = Put(t.embed, "fields", nl)]
        e == NewEmbed(t2.embed)
    IN  IF ~made.ok THEN [ok |-> FALSE, lo |-> lo, t |-> t, e |-> e]
        ELSE IF IsRaised(e) THEN [ok |-> FALSE, lo |-> lo2, t |-> t2, e |-> e]
        ELSE [ok |-> TRUE, lo |-> lo2, t |-> t2, e |-> e]

\* load_template, the Use button of card i
LoadTemplate(i) ==
    /\ pc = "gallery"
    /\ i \in 1..Len(templates)
    /\ LET r == LoadTemplateTry(listObj, templates[i])
           nr == NewRef(embedObj)
           ts == [templates EXCEPT ![i] = r.t]
       IN  IF r.ok
           THEN /\ ui' = LoadEmbedToUi(r.e)
                /\ Commit(SyncEmbedFromUi(Put(embedObj, nr, r.e), nr, ui'), r.lo,
                          nr, history, ts)
                /\ pc' = "idle"
           ELSE /\ UNCHANGED <<ui, pc>>
                /\ Commit(embedObj, r.lo, current_embed, history, ts)
    /\ obs' = Quiet
    /\ UNCHANGED <<webhook_settings, fileVars, dlg, probe>>

\* delete_template(index), confirmed; it ends in show_templates
DeleteTemplate(i) ==
    /\ pc = "gallery"
    /\ i \in 1..Len(templates)
    /\ LET ts == Remove(templates, i)
           r == ShowTemplatesFrom(listObj, ts, SaveTemplates(listObj, ts))
       IN  /\ templates_file' = r[3]
           /\ Commit(embedObj, r[1], current_embed, history, r[2])
    /\ obs' = Quiet
    /\ UNCHANGED <<webhook_settings, ui, history_file, settings_file, pc, dlg, probe>>

\* save_as_template(dialog) from the gallery, a non-empty name entered
SaveAsTemplate(name) ==
    /\ pc = "gallery"
    /\ LET eo == SyncEmbedFromUi(embedObj, current_embed, ui)
           nl == NewRef(listObj)
           doc == AsDict(Deref(eo, listObj, current_embed))
           lo == Put(listObj, nl, doc.fields)
           ts == Append(templates, [name |-> name, description |-> "",
                                    embed |-> Put(doc, "fields", nl)])
       IN  /\ templates_file' = SaveTemplates(lo, ts)
           /\ Commit(eo, lo, current_embed, history, ts)
    /\ obs' = Quiet
    /\ UNCHANGED <<webhook_settings, ui, history_file, settings_file, pc, dlg, probe>>

\* the gallery window is closed
CloseGallery ==
    /\ pc = "gallery"
    /\ pc' = "idle"
    /\ obs' = Quiet
    /\ UNCHANGED <<heapVars, current_embed, history, templates, webhook_settings, ui,
                   fileVars, dlg, probe>>

(***************************************************************************)
(* History                                                                 *)
(***************************************************************************)
HISTORY_SHOWN == 20

\* show_history
ShowHistory ==
    /\ pc = "idle"
    /\ pc' = "historyDlg"
    /\ obs' = Quiet
    /\ UNCHANGED <<heapVars, current_embed, history, templates, webhook_settings, ui,
                   fileVars, dlg, probe>>

\* restore_from_history, the Restore button of the card of history[i]
RestoreFromHistory(i) ==
    /\ pc = "historyDlg"
    /\ i \in 1..Len(history)
    /\ i > Len(history) - HISTORY_SHOWN
    /\ LET r == history[i]
       IN  /\ ui' = LoadEmbedToUi(embedObj[r])
           /\ Commit(SyncEmbedFromUi(embedObj, r, ui'), listObj, r, history, templates)
    /\ pc' = "idle"
    /\ obs' = Quiet
    /\ UNCHANGED <<webhook_settings, fileVars, dlg, probe>>

\* clear_history, confirmed
ClearHistory ==
    /\ pc = "historyDlg"
    /\ history_file' = SaveHistory(embedObj, listObj, <<>>)
    /\ Commit(embedObj, listObj, current_embed, <<>>, templates)
    /\ pc' = "idle"
    /\ obs' = [Quiet EXCEPT !.op = "clear_history", !.sent = 0]
    /\ UNCHANGED <<webhook_settings, ui, templates_file, settings_file, dlg, probe>>

\* the history window is closed
CloseHistory ==
    /\ pc = "historyDlg"
    /\ pc' = "idle"
    /\ obs' = Quiet
    /\ UNCHANGED <<heapVars, current_embed, history, templates, webhook_settings, ui,
                   fileVars, dlg, probe>>

(***************************************************************************)
(* send_webhook                                                            *)
(***************************************************************************)
WEBHOOK_MARK ==
    <<"d", "i", "s", "c", "o", "r", "d", ".", "c", "o", "m", "/", "a", "p", "i", "/",
      "w", "e", "b", "h", "o", "o", "k", "s", "/">>
WEBHOOK_MARK_APP ==
    <<"d", "i", "s", "c", "o", "r", "d", "a", "p", "p", ".", "c", "o", "m", "/", "a",
      "p", "i", "/", "w", "e", "b", "h", "o", "o", "k", "s", "/">>

GoodUrl == HTTPS \o WEBHOOK_MARK \o <<"1">>

\* what the user enters in the send dialog
SendInputs ==
    {[url |-> GoodUrl, username |-> <<>>, avatar_url |-> <<>>, remember |-> TRUE],
     [url |-> GoodUrl, username |-> <<"u", " ">>, avatar_url |-> <<>>, remember |-> FALSE],
     [url |-> <<" ">>, username |-> <<>>, avatar_url |-> <<>>, remember |-> TRUE]}

\* what the endpoint answers: an HTTP status, or requests.post raises
Responses ==
    {[kind |-> "response", status |-> st] : st \in {200, 204, 400}}
        \cup {[kind |-> "exception", status |-> 0]}


\* the local checks of the dialog's send(): "" when the input passes
SendRejection(in) ==
    LET url == Strip(in.url)
        avatar == Strip(in.avatar_url)
    IN  IF url = <<>> THEN "Required"
        ELSE IF ~Contains(url, WEBHOOK_MARK) /\ ~Contains(url, WEBHOOK_MARK_APP)
        THEN "Invalid URL"
        ELSE IF avatar # <<>> /\ ~IsHttp(avatar) THEN "Invalid URL"
        ELSE ""

\* the payload of send_webhook
BuildPayload(embedDict, username, avatar_url) ==
    LET p0 == [embeds |-> <<embedDict>>]
        p1 == IF username # <<>> THEN Put(p0, "username", username) ELSE p0
        p2 == IF avatar_url # <<>> THEN Put(p1, "avatar_url", avatar_url) ELSE p1
    IN  p2

\* any HTTP response taken for a success
IsSuccessAnyStatus(resp) == resp.kind = "response"

\* response.status_code in (200, 204)
IsSuccess(resp) == resp.kind = "response" /\ resp.status \in {200, 204}

\* a second POST after a failed one
PostCallsRetry(resp) == IF resp.kind = "response" /\ resp.status \in {200, 204} THEN 1 ELSE 2

\* the requests.post calls one pass through the try block makes
PostCalls(resp) == 1

\* send_webhook up to its first modal wait: sync, validate, then either the
\* "Send anyway?" box or the send dialog
SendStart ==
    /\ pc = "idle"
    /\ embedObj' = SyncEmbedFromUi(embedObj, current_embed, ui)
    /\ pc' = IF EmbedValidate(Deref(embedObj', listObj, current_embed)) # <<>>
             THEN "askValidation" ELSE "sendDialog"
    /\ dlg' = [kind |-> "send", overridden |-> FALSE]
    /\ obs' = [Quiet EXCEPT !.op = "send_started"]
    /\ UNCHANGED <<listObj, current_embed, history, templates, webhook_settings, ui,
                   fileVars, probe>>

\* an askyesnocancel whose every answer goes on to the send dialog
AnswerValidationProceeds(ans) ==
    /\ pc = "askValidation"
    /\ pc' = "sendDialog"
    /\ dlg' = [dlg EXCEPT !.overridden = (ans = "yes")]
    /\ obs' = obs
    /\ UNCHANGED <<heapVars, current_embed, history, templates, webhook_settings, ui,
                   fileVars, probe>>

\* the answer to askyesnocancel: yes (True), no (False) or cancel (None)
AnswerValidation(ans) ==
    /\ pc = "askValidation"
    /\ IF ans = "yes"
       THEN /\ pc' = "sendDialog"
            /\ dlg' = [dlg EXCEPT !.overridden = TRUE]
            /\ obs' = obs
       ELSE /\ pc' = "idle"
            /\ dlg' = NoDlg
            /\ obs' = Did("send_cancelled", obs.posts)
    /\ UNCHANGED <<heapVars, current_embed, history, templates, webhook_settings, ui,
                   fileVars, probe>>

\* Cancel in the send dialog: wait_window returns with send_clicked unset
CancelSendDialog ==
    /\ pc = "sendDialog"
    /\ pc' = "idle"
    /\ dlg' = NoDlg
    /\ obs' = Did("send_cancelled", obs.posts)
    /\ UNCHANGED <<heapVars, current_embed, history, templates, webhook_settings, ui,
                   fileVars, probe>>

\* result_data as send() fills it: the entries stripped, and the checkbox
ResultData(in) ==
    [url |-> Strip(in.url), username |-> Strip(in.username),
     avatar_url |-> Strip(in.avatar_url), remember |-> in.remember]

\* settings replaced whether or not "remember" is checked
SettingsAfterAlways(settings, result_data) ==
    [url |-> result_data.url, username |-> result_data.username,
     avatar_url |-> result_data.avatar_url]

\* self.webhook_settings after the dialog: replaced if "remember" is checked
SettingsAfter(settings, result_data) ==
    IF result_data.remember
    THEN [url |-> result_data.url, username |-> result_data.username,
          avatar_url |-> result_data.avatar_url]
    ELSE settings

\* Send in the send dialog.  A rejected input leaves the dialog open.  An
\* accepted one closes it, and send_webhook runs on: settings remembered,
\* payload built (to_dict may raise, which ends the handler), debug question.
ClickSend(in, now) ==
    /\ pc = "sendDialog"
    /\ IF SendRejection(in) # ""
       THEN /\ obs' = Did("send_input_rejected", obs.posts)
            /\ UNCHANGED <<webhook_settings, settings_file, pc, dlg>>
       ELSE LET url == Strip(in.url)
                username == Strip(in.username)
                avatar == Strip(in.avatar_url)
                d == ToDict(Deref(embedObj, listObj, current_embed), now)
            IN  /\ webhook_settings' = SettingsAfter(webhook_settings, ResultData(in))
                /\ settings_file' = IF in.remember THEN Json(webhook_settings')
                                    ELSE settings_file
                /\ IF IsRaised(d)
                   THEN /\ pc' = "idle"
                        /\ dlg' = NoDlg
                        /\ obs' = Did("send_crashed", obs.posts)
                   ELSE /\ pc' = "askDebug"
                        /\ dlg' = [kind |-> "send", overridden |-> dlg.overridden,
                                   result_data |-> ResultData(in),
                                   url |-> url,
                                   payload |-> BuildPayload(d, username, avatar),
                                   embed |-> Deref(embedObj, listObj, current_embed)]
                        /\ obs' = Did("send_confirmed", obs.posts)
    /\ UNCHANGED <<heapVars, current_embed, history, templates, ui, history_file,
                   templates_file, probe>>

\* requests.post sends to a URL whose scheme, in any letter case, is http or
\* https; for any other URL it raises before connecting
RequestsAccepts(url) == IsHttp(Lower(url))

\* what the return of requests.post leads to: the success box, or an error box
PostOutcome(resp) ==
    /\ RequestsAccepts(dlg.url) \/ resp.kind = "exception"
    /\ IF IsSuccess(resp)
       THEN /\ pc' = "successBox"
            /\ dlg' = dlg
            /\ obs' = [Did("posted", obs.posts + PostCalls(resp)) EXCEPT !.resp = resp]
       ELSE /\ pc' = "idle"
            /\ dlg' = NoDlg
            /\ obs' = [Did(IF resp.kind = "exception" THEN "send_error"
                               ELSE "send_rejected",
                               obs.posts + PostCalls(resp)) EXCEPT !.resp = resp]
    /\ UNCHANGED <<heapVars, current_embed, history, templates, webhook_settings, ui,
                   fileVars, probe>>

\* the debug question answered, requests.post called and returned
Post(resp) == pc = "askDebug" /\ PostOutcome(resp)

\* the same in two steps: requests.post is called and blocks the UI thread,
PostBegin ==
    /\ pc = "askDebug"
    /\ pc' = "posting"
    /\ UNCHANGED <<heapVars, current_embed, history, templates, webhook_settings, ui,
                   fileVars, dlg, obs, probe>>

\* then returns or raises
PostEnd(resp) == pc = "posting" /\ PostOutcome(resp)

\* the success box closed: history.append(copy.deepcopy(current_embed)) and
\* save_history()
CloseSuccessBox ==
    /\ pc = "successBox"
    /\ LET c == DeepCopy(embedObj, listObj, current_embed)
       IN  /\ history_file' = SaveHistory(c[1], c[2], Append(history, c[3]))
           /\ Commit(c[1], c[2], current_embed, Append(history, c[3]), templates)
    /\ pc' = "idle"
    /\ dlg' = NoDlg
    /\ obs' = [obs EXCEPT !.op = "send_ok", !.sent = @ + 1]
    /\ UNCHANGED <<webhook_settings, ui, templates_file, settings_file, probe>>

(***************************************************************************)
(* The window is closed and the program started again                      *)
(***************************************************************************)
Restart ==
    /\ pc = "idle"
    /\ \E c \in {Construct(history_file, templates_file, settings_file)} :
           /\ Commit(c.eo, c.lo, c.cur, c.hist, c.ts)
           /\ webhook_settings' = c.webhook_settings
    /\ ui' = UiDefaults
    /\ dlg' = NoDlg
    /\ obs' = Quiet
    /\ UNCHANGED <<fileVars, pc, probe>>

(***************************************************************************)
(* The editor session                                                      *)
(***************************************************************************)
\* one handler run by the user, counted against the session's length
Op(A) ==
    /\ ops < MaxOps
    /\ ops' = ops + 1
    /\ A

Next ==
    \/ \E s \in TitleInputs : Op(TypeTitle(s))
    \/ Op(OpenAddField)
    \/ \E in \in AddInputs : Op(AddField(in))
    \/ \E i \in 1..Len(CurFields) : Op(OpenEditField(i))
    \/ \E in \in EditInputs : Op(SaveField(in))
    \/ Op(CancelFieldDialog)
    \/ \E i \in 1..Len(CurFields) : Op(DeleteField(i))
    \/ \E i \in 1..Len(CurFields) : Op(MoveFieldUp(i))
    \/ \E i \in 1..Len(CurFields) : Op(MoveFieldDown(i))
    \/ Op(ClearAll)
    \/ Op(ShowTemplates)
    \/ \E i \in 1..Len(templates) : Op(LoadTemplate(i))
    \/ \E i \in 1..Len(templates) : Op(DeleteTemplate(i))
    \/ Op(SaveAsTemplate("T"))
    \/ Op(CloseGallery)
    \/ Op(ShowHistory)
    \/ \E i \in 1..Len(history) : Op(RestoreFromHistory(i))
    \/ Op(ClearHistory)
    \/ Op(CloseHistory)
    \/ Op(SendStart)
    \/ \E ans \in {"yes", "no", "cancel"} : Op(AnswerValidation(ans))
    \/ Op(CancelSendDialog)
    \/ \E in \in SendInputs, now \in 0..MaxClock : Op(ClickSend(in, now))
    \/ \E resp \in Responses : Op(Post(resp))
    \/ Op(CloseSuccessBox)
    \/ Op(Restart)
    \/ AutoSave /\ UNCHANGED ops

Spec == Init /\ [][Next]_vars

(***************************************************************************)
(* The sending session: from an empty history the user sends one embed     *)
(* after the other, numbering them in the title, past the 50 entries the   *)
(* history file keeps.  The endpoint accepts only embeds within the limits. *)
(***************************************************************************)
InitSends ==
    /\ Init
    /\ history_file = Absent

Serial == Digits(obs.sent + 1)

\* a handler run in a session whose length is not counted
Free(A) == A /\ UNCHANGED ops

NextSends ==
    \/ Free(TypeTitle(Serial))
    \/ Free(TypeTitle(LongTitle))
    \/ Free(AutoSave)
    \/ /\ Strip(ui.title) \in {Serial, LongTitle}
       /\ Free(SendStart)
    \/ \E ans \in {"yes", "no", "cancel"} : Free(AnswerValidation(ans))
    \/ Free(CancelSendDialog)
    \/ \E in \in SendInputs, now \in 0..MaxClock : Free(ClickSend(in, now))
    \/ \E resp \in Responses :
         /\ pc = "askDebug"
         /\ IsSuccess(resp) => obs.sent < MaxSends /\ EmbedValidate(dlg.embed) = <<>>
         /\ Free(Post(resp))
    \/ Free(CloseSuccessBox)
    \/ Free(ShowHistory)
    \/ Free(ClearHistory)
    \/ Free(CloseHistory)
    \/ Free(Restart)

SpecSends == InitSends /\ [][NextSends]_vars

(***************************************************************************)
(* The data model on its own: the codec, the loader and the serializer     *)
(* applied to embeds and stored documents drawn from bounded sets; probe   *)
(* holds the last input and what was computed from it.                     *)
(***************************************************************************)
FTP_X == <<"f", "t", "p", ":", "/", "/", "x">>

\* embeds to store: 0 to MAX_FIELDS fields, named by their place
StoredFields(n) == [i \in 1..n |-> EmbedField(Digits(i), <<"v">>, i % 2 = 0)]

ProbeEmbeds ==
    {NewEmbed([title |-> t, timestamp |-> ts, fields |-> StoredFields(n)]) :
        t \in {<<>>, <<"A", " ">>}, ts \in BOOLEAN, n \in 0..MAX_FIELDS}

\* stored documents: written by this version, an older one, a newer one, by hand
DocNoName == Put(DocA, "fields", << [value |-> <<"v">>, inline |-> TRUE] >>)

ProbeDocs == {DocA, DocOld, DocOldField, DocNewer, DocNewerField, DocBlankField, DocNoName}

RECURSIVE SeqsUpTo(_, _)
\* the sequences over S of length at most n
SeqsUpTo(S, n) ==
    IF n = 0 THEN {<<>>}
    ELSE LET shorter == SeqsUpTo(S, n - 1)
         IN  shorter \cup {Append(q, x) : q \in shorter, x \in S}

ProbeFiles == {Absent, Corrupt} \cup {Json(d) : d \in SeqsUpTo(ProbeDocs, MaxDocs)}

\* embeds to serialize: every URL attribute empty, not http, or http(s)
ProbeUrlEmbeds ==
    {NewEmbed([url |-> u, thumbnail |-> th, image |-> im, footer |-> ft,
               footer_icon |-> fi, author_icon |-> ai, author_url |-> au]) :
        u \in {<<>>, FTP_X, HTTP \o <<"x">>},
        th \in {<<>>, FTP_X, HTTPS \o <<"x">>},
        im \in {<<>>, FTP_X, HTTP \o <<"x">>},
        ft \in {<<>>, <<"f">>},
        fi \in {<<>>, FTP_X, HTTPS \o <<"x">>},
        ai \in {<<>>, FTP_X, HTTP \o <<"x">>},
        au \in {<<>>, FTP_X, HTTPS \o <<"x">>}}

GREEN == <<"#", "3", "B", "A", "5", "5", "C">>

\* colours #RRGGBB: every hex digit, either case, at every place, and the
\* colours of the default embed and of the colour presets
ProbeColors ==
    {[i \in 1..7 |-> IF i = 1 THEN "#" ELSE IF i = k + 1 THEN h ELSE "0"] :
        k \in 1..6, h \in DOMAIN HexVal}
    \cup {DEFAULT_COLOR, GREEN, <<"#", "F", "F", "F", "F", "F", "F">>,
          <<"#", "f", "e", "E", "7", "5", "c">>, <<"#", "3", "B", "8", "A", "6", "2">>}

\* embeds to serialize: a colour #RRGGBB, or none
ProbeColorEmbeds == {NewEmbed([color |-> c]) : c \in ProbeColors \cup {<<>>}}

\* the text of n characters c
Rep(c, n) == [i \in 1..n |-> c]

\* field names: none, blank, short, of the longest length, one over, blank
\* and over
ProbeNames ==
    {<<>>, <<" ">>, <<"\t", "\n">>, <<"n">>, Rep("n", MAX_FIELD_NAME),
     Rep("n", MAX_FIELD_NAME + 1),
     Rep(" ", MAX_FIELD_NAME + 1)}

\* field values, likewise
ProbeValues ==
    {<<>>, <<" ", " ">>, <<"v">>, Rep("v", MAX_FIELD_VALUE), Rep("v", MAX_FIELD_VALUE + 1),
     Rep(" ", MAX_FIELD_VALUE + 1)}

ProbeFields == {EmbedField(n, v, FALSE) : n \in ProbeNames, v \in ProbeValues}

\* fields breaking no rule, one rule, all four rules
FieldOfKind ==
    [good |-> EmbedField(<<"n">>, <<"v">>, FALSE),
     noname |-> EmbedField(<<>>, <<"v">>, TRUE),
     allbad |-> EmbedField(Rep(" ", MAX_FIELD_NAME + 1), Rep(" ", MAX_FIELD_VALUE + 1),
                           FALSE)]

\* n fields: the first of kind a, the second of kind b, the last of kind c,
\* the others good
CheckedFields(n, a, b, c) ==
    [i \in 1..n |-> FieldOfKind[IF i = n THEN c ELSE IF i = 1 THEN a
                               ELSE IF i = 2 THEN b ELSE "good"]]

\* embeds to validate: up to MAX_FIELDS + MaxOver fields, title and author
\* within the limit or over it
ProbeCheckedEmbeds ==
    {NewEmbed([title |-> t, author |-> au, fields |-> CheckedFields(n, a, b, c)]) :
        t \in {<<>>, LongTitle}, au \in {<<>>, Rep("a", MAX_AUTHOR + 1)},
        n \in {0, 1, 2, 3, MAX_FIELDS} \cup (MAX_FIELDS + 1)..(MAX_FIELDS + MaxOver),
        a \in DOMAIN FieldOfKind, b \in DOMAIN FieldOfKind, c \in DOMAIN FieldOfKind}

\* buttons to serialize and validate: every style and one the program does
\* not know, labels empty, mixed case with a space, at the limit and over it
ProbeLabels ==
    {<<>>, <<"O", "K">>, <<"o", "k">>, <<"G", "o", " ", "U", "p">>,
     <<"g", "o", "_", "u", "p">>, Rep("x", MAX_BUTTON_LABEL),
     Rep("x", MAX_BUTTON_LABEL + 1)}

ProbeButtons ==
    {MessageButton(l, u, st, em, dis) :
        l \in ProbeLabels, u \in {<<>>, HTTPS \o <<"x">>},
        st \in {"primary", "secondary", "success", "danger", "link", "custom"},
        em \in {<<>>, <<"*">>}, dis \in BOOLEAN}

ModelFrame ==
    UNCHANGED <<heapVars, current_embed, history, templates, webhook_settings, ui,
                fileVars, pc, dlg, obs, ops>>

\* the embed load_template builds from the template save_as_template stored
\* for the embed e, or the exception raised
TemplateRoundTrip(e) ==
    LET doc == AsDict(e)
        r == LoadTemplateTry(0 :> doc.fields,
                             [name |-> "T", description |-> "",
                              embed |-> Put(doc, "fields", 0)])
    IN  IF r.ok THEN [r.e EXCEPT !.fields = r.lo[@]] ELSE Raised("TypeError")

\* save then load of one embed: asdict, then the loop body of load_history,
\* and the same through a template
StoreAndDecode ==
    /\ probe.kind = "embed"
    /\ probe' = [kind |-> "codec", embed |-> probe.embed, doc |-> AsDict(probe.embed),
                 back |-> DecodeEmbed(AsDict(probe.embed)),
                 tback |-> TemplateRoundTrip(probe.embed)]
    /\ ModelFrame

\* the loop body of load_history on one stored document
DecodeStored ==
    /\ probe.kind = "doc"
    /\ probe' = [kind |-> "decode", doc |-> probe.doc, item |-> DecodeEmbed(probe.doc)]
    /\ ModelFrame

\* load_history on a history file, the list empty as at construction
LoadStored ==
    /\ probe.kind = "file"
    /\ probe' = [kind |-> "load", file |-> probe.file,
                 history |-> LoadHistory(probe.file, <<>>)]
    /\ ModelFrame

\* Embed.to_dict
Serialize(now) ==
    /\ probe.kind = "wire"
    /\ probe' = [kind |-> "to_dict", embed |-> probe.embed, now |-> now,
                 payload |-> ToDict(probe.embed, now), calls |-> 1,
                 before |-> [now |-> now, payload |-> ToDict(probe.embed, now)]]
    /\ ModelFrame

\* Embed.to_dict, called a second time on the same embed
SerializeAgain(now) ==
    /\ probe.kind = "to_dict"
    /\ probe.calls = 1
    /\ probe' = [probe EXCEPT !.now = now, !.payload = ToDict(probe.embed, now),
                              !.calls = 2,
                              !.before = [now |-> probe.now, payload |-> probe.payload]]
    /\ ModelFrame

\* EmbedField.validate
ValidateField ==
    /\ probe.kind = "field"
    /\ probe' = [kind |-> "field_validate", field |-> probe.field,
                 errors |-> FieldValidate(probe.field)]
    /\ ModelFrame

\* Embed.validate
Validate ==
    /\ probe.kind = "check"
    /\ probe' = [kind |-> "validate", embed |-> probe.embed,
                 errors |-> EmbedValidate(probe.embed)]
    /\ ModelFrame

\* MessageButton.to_dict
SerializeButton ==
    /\ probe.kind = "button"
    /\ probe' = [kind |-> "button_to_dict", button |-> probe.button,
                 payload |-> ButtonToDict(probe.button)]
    /\ ModelFrame

\* MessageButton.validate
ValidateButton ==
    /\ probe.kind = "button"
    /\ probe' = [kind |-> "button_validate", button |-> probe.button,
                 errors |-> ButtonValidate(probe.button)]
    /\ ModelFrame

\* what the user enters in the Add Button dialog
ButtonInputs ==
    {[label |-> <<" ">>, url |-> <<>>, style |-> "primary", emoji |-> <<>>],
     [label |-> <<"G", "o">>, url |-> <<" ">>, style |-> "link", emoji |-> <<>>],
     [label |-> Rep("x", MAX_BUTTON_LABEL + 1), url |-> <<>>, style |-> "primary",
      emoji |-> <<>>],
     [label |-> <<" ", "O", "K">>, url |-> <<>>, style |-> "primary", emoji |-> <<>>],
     [label |-> <<"G", "o">>, url |-> HTTPS \o <<"x">>, style |-> "link",
      emoji |-> <<"*">>]}

\* the closure add() of add_button_dialog on the list buttons: the list
\* after it, and how it ended
AddButtonResult(buttons, in) ==
    LET label == Strip(in.label)
        url == Strip(in.url)
        button == MessageButton(label, url, in.style, Strip(in.emoji), FALSE)
    IN  IF label = <<>> THEN [buttons |-> buttons, last |-> "label required"]
        ELSE IF in.style = "link" /\ url = <<>>
        THEN [buttons |-> buttons, last |-> "url required"]
        ELSE IF ButtonValidate(button) # <<>>
        THEN [buttons |-> buttons, last |-> "validation error"]
        ELSE [buttons |-> Append(buttons, button), last |-> "added"]

\* the components of a session: whether the attribute buttons exists (no
\* statement of the program assigns it), the list it holds when it does,
\* the dialog that is open, the last input and how the last handler ended
Components(has, at, last) ==
    [kind |-> "components", has_buttons |-> has, buttons |-> <<>>, pc |-> at,
     in |-> [label |-> <<>>, url |-> <<>>, style |-> "primary", emoji |-> <<>>],
     before |-> <<>>, last |-> last]

\* add_button_dialog up to the dialog: AttributeError without the attribute,
\* a warning at 5 buttons
OpenAddButton ==
    /\ probe.kind = "components"
    /\ probe.pc = "idle"
    /\ probe' = IF ~probe.has_buttons THEN [probe EXCEPT !.last = "AttributeError"]
                ELSE IF Len(probe.buttons) >= MAX_BUTTONS
                THEN [probe EXCEPT !.last = "limit reached"]
                ELSE [probe EXCEPT !.pc = "addButton", !.last = "dialog"]
    /\ ModelFrame

\* add(), the dialog's Add Button: the dialog closes when the button is added
AddButton(in) ==
    /\ probe.kind = "components"
    /\ probe.pc = "addButton"
    /\ LET r == AddButtonResult(probe.buttons, in)
       IN  probe' = [probe EXCEPT !.buttons = r.buttons, !.last = r.last, !.in = in,
                                  !.before = probe.buttons,
                                  !.pc = IF r.last = "added" THEN "idle" ELSE "addButton"]
    /\ ModelFrame

\* the dialog's Cancel
CancelAddButton ==
    /\ probe.kind = "components"
    /\ probe.pc = "addButton"
    /\ probe' = [probe EXCEPT !.pc = "idle", !.last = "cancelled"]
    /\ ModelFrame

\* delete_button(index), i the 1-based position
DeleteButton(i) ==
    /\ probe.kind = "components"
    /\ probe.pc = "idle"
    /\ probe.has_buttons
    /\ i \in 1..Len(probe.buttons)
    /\ probe' = [probe EXCEPT !.buttons = Remove(@, i), !.last = "deleted"]
    /\ ModelFrame

\* SelectOption(label=..., value=..., description=..., emoji=..., default=...)
SelectOption(label, value, description, emoji, default) ==
    [cls |-> "SelectOption", label |-> label, value |-> value,
     description |-> description, emoji |-> emoji, default |-> default]

\* SelectMenu(placeholder=..., options=...)
SelectMenu(placeholder, options) ==
    [cls |-> "SelectMenu", placeholder |-> placeholder, options |-> options,
     min_values |-> 1, max_values |-> 1]

\* validation that does not count the options
MenuValidateNonEmpty(m) ==
    IF m.options = <<>> THEN << <<"Select menu must have at least one option">> >>
    ELSE <<>>

\* SelectMenu.validate
MenuValidate(m) ==
    (IF m.options = <<>> THEN << <<"Select menu must have at least one option">> >>
     ELSE <<>>)
    \o (IF Len(m.options) > MAX_OPTIONS
        THEN << <<"Too many options", Len(m.options), MAX_OPTIONS>> >> ELSE <<>>)

\* what the user enters as the label of an option
OptionInputs == {<<" ">>, <<"O", "n", "e">>}

\* the select menus of a session: whether the attribute select_menus exists
\* (no statement of the program assigns it), the list it holds when it does,
\* the dialog that is open, its options_list, how the last handler ended
Menus(has) ==
    [kind |-> "menus", has_menus |-> has, select_menus |-> <<>>, pc |-> "idle",
     options |-> <<>>, last |-> "none"]

\* add_select_menu_dialog up to the dialog: AttributeError without the
\* attribute, a warning at one menu; options_list starts empty
OpenAddMenu ==
    /\ probe.kind = "menus"
    /\ probe.pc = "idle"
    /\ probe' = IF ~probe.has_menus THEN [probe EXCEPT !.last = "AttributeError"]
                ELSE IF Len(probe.select_menus) >= MAX_MENUS
                THEN [probe EXCEPT !.last = "limit reached"]
                ELSE [probe EXCEPT !.pc = "addMenu", !.options = <<>>, !.last = "dialog"]
    /\ ModelFrame

\* add_option up to the option dialog: a warning at 25 options
OpenAddOption ==
    /\ probe.kind = "menus"
    /\ probe.pc = "addMenu"
    /\ probe' = IF Len(probe.options) >= MAX_OPTIONS
                THEN [probe EXCEPT !.last = "option limit"]
                ELSE [probe EXCEPT !.pc = "addOption", !.last = "dialog"]
    /\ ModelFrame

\* save_option, the option dialog's Add
SaveOption(label) ==
    /\ probe.kind = "menus"
    /\ probe.pc = "addOption"
    /\ probe' = IF Strip(label) = <<>> THEN [probe EXCEPT !.last = "label required"]
                ELSE [probe EXCEPT
                        !.options = Append(@, SelectOption(Strip(label),
                                        Replace(Lower(Strip(label)), " ", "_"),
                                        <<>>, <<>>, FALSE)),
                        !.pc = "addMenu", !.last = "option added"]
    /\ ModelFrame

\* the option dialog's Cancel
CancelOption ==
    /\ probe.kind = "menus"
    /\ probe.pc = "addOption"
    /\ probe' = [probe EXCEPT !.pc = "addMenu", !.last = "cancelled"]
    /\ ModelFrame

\* remove_option(idx), i the 1-based position
RemoveOption(i) ==
    /\ probe.kind = "menus"
    /\ probe.pc = "addMenu"
    /\ i \in 1..Len(probe.options)
    /\ probe' = [probe EXCEPT !.options = Remove(@, i), !.last = "option removed"]
    /\ ModelFrame

\* the closure appending whatever options_list holds
AddMenuResultUnchecked(menus, options) ==
    [menus |-> Append(menus, SelectMenu(<<"S">>, options)), last |-> "added"]

\* the closure add() of add_select_menu_dialog on the list menus with the
\* dialog's options_list: the list after it, and how it ended
AddMenuResult(menus, options) ==
    IF options = <<>> THEN [menus |-> menus, last |-> "option required"]
    ELSE IF MenuValidate(SelectMenu(<<"S">>, options)) # <<>>
    THEN [menus |-> menus, last |-> "validation error"]
    ELSE [menus |-> Append(menus, SelectMenu(<<"S">>, options)), last |-> "added"]

\* add(), the dialog's Add Menu: the dialog closes when the menu is added
AddMenu ==
    /\ probe.kind = "menus"
    /\ probe.pc = "addMenu"
    /\ LET r == AddMenuResult(probe.select_menus, probe.options)
       IN  probe' = [probe EXCEPT !.select_menus = r.menus, !.last = r.last,
                                  !.pc = IF r.last = "added" THEN "idle" ELSE "addMenu"]
    /\ ModelFrame

\* the dialog's Cancel
CancelAddMenu ==
    /\ probe.kind = "menus"
    /\ probe.pc = "addMenu"
    /\ probe' = [probe EXCEPT !.pc = "idle", !.last = "cancelled"]
    /\ ModelFrame

\* delete_menu(index), i the 1-based position
DeleteMenu(i) ==
    /\ probe.kind = "menus"
    /\ probe.pc = "idle"
    /\ probe.has_menus
    /\ i \in 1..Len(probe.select_menus)
    /\ probe' = [probe EXCEPT !.select_menus = Remove(@, i), !.last = "deleted"]
    /\ ModelFrame

\* the input of one application
\* field lists to reorder: empty, one field, distinct fields, a repeated field
ProbeOrders ==
    {<<>>, <<"a">>, <<"a", "b", "c">>, <<"a", "b", "a", "c">>}

\* a list of fields and the moves applied to it: before2 and before are the
\* list two moves and one move ago, op2/at2 and op/at the moves
Order(fs) ==
    [kind |-> "order", orig |-> fs, fields |-> fs, moves |-> 0,
     before |-> fs, op |-> "none", at |-> 0,
     before2 |-> fs, op2 |-> "none", at2 |-> 0]

Moved(op, fs, i) ==
    [probe EXCEPT !.fields = fs, !.moves = @ + 1,
                  !.before = probe.fields, !.op = op, !.at = i,
                  !.before2 = probe.before, !.op2 = probe.op, !.at2 = probe.at]

\* move_field_up on the list alone
MoveUp(i) ==
    /\ probe.kind = "order"
    /\ probe.moves < MaxMoves
    /\ i \in 1..Len(probe.fields)
    /\ probe' = Moved("up", MovedUp(probe.fields, i), i)
    /\ ModelFrame

\* move_field_down on the list alone
MoveDown(i) ==
    /\ probe.kind = "order"
    /\ probe.moves < MaxMoves
    /\ i \in 1..Len(probe.fields)
    /\ probe' = Moved("down", MovedDown(probe.fields, i), i)
    /\ ModelFrame

InitModel ==
    /\ Constructed
    /\ history_file = Absent
    /\ probe \in {[kind |-> "embed", embed |-> e] : e \in ProbeEmbeds}
            \cup {[kind |-> "doc", doc |-> d] : d \in ProbeDocs}
            \cup {[kind |-> "file", file |-> f] : f \in ProbeFiles}
            \cup {[kind |-> "wire", embed |-> e] :
                      e \in ProbeUrlEmbeds \cup ProbeColorEmbeds \cup ProbeEmbeds}
            \cup {[kind |-> "field", field |-> f] : f \in ProbeFields}
            \cup {[kind |-> "check", embed |-> e] : e \in ProbeCheckedEmbeds}
            \cup {[kind |-> "button", button |-> b] : b \in ProbeButtons}
            \cup {Components(has, "idle", "none") : has \in BOOLEAN}
            \cup {Menus(has) : has \in BOOLEAN}
            \cup {Order(fs) : fs \in ProbeOrders}

NextModel ==
    \/ StoreAndDecode
    \/ DecodeStored
    \/ LoadStored
    \/ \E now \in 0..MaxClock : Serialize(now)
    \/ \E now \in 0..MaxClock : SerializeAgain(now)
    \/ ValidateField
    \/ Validate
    \/ SerializeButton
    \/ ValidateButton
    \/ OpenAddButton
    \/ \E in \in ButtonInputs : AddButton(in)
    \/ CancelAddButton
    \/ \E i \in 1..MAX_BUTTONS : DeleteButton(i)
    \/ OpenAddMenu
    \/ OpenAddOption
    \/ \E label \in OptionInputs : SaveOption(label)
    \/ CancelOption
    \/ \E i \in {1, MAX_OPTIONS} : RemoveOption(i)
    \/ AddMenu
    \/ CancelAddMenu
    \/ \E i \in 1..MAX_MENUS : DeleteMenu(i)
    \/ \E i \in 1..MaxOrder : MoveUp(i)
    \/ \E i \in 1..MaxOrder : MoveDown(i)

SpecModel == InitModel /\ [][NextModel]_vars

(***************************************************************************)
(* The session over stores written elsewhere: a history document and a     *)
(* template whose embed has one field more than the editor lets add.       *)
(***************************************************************************)
DocFull == AsDict(NewEmbed([title |-> <<"F">>, fields |-> StoredFields(MAX_FIELDS + 1)]))

TemplateFull == [name |-> "Full", description |-> "", embed |-> DocFull]

InitStored ==
    /\ history_file = Json(<<DocFull>>)
    /\ templates_file = Json(<<TemplateFull>>)
    /\ settings_file = Absent
    /\ ConstructedOver
    /\ probe = NoProbe

NextStored ==
    \/ \E s \in TitleInputs : Op(TypeTitle(s))
    \/ Op(OpenAddField)
    \/ \E in \in AddInputs : Op(AddField(in))
    \/ Op(CancelFieldDialog)
    \/ \E i \in {1, Len(CurFields)} : Op(DeleteField(i))
    \/ Op(ClearAll)
    \/ Op(ShowTemplates)
    \/ \E i \in 1..Len(templates) : Op(LoadTemplate(i))
    \/ Op(CloseGallery)
    \/ Op(ShowHistory)
    \/ \E i \in 1..Len(history) : Op(RestoreFromHistory(i))
    \/ Op(CloseHistory)
    \/ Op(Restart)
    \/ AutoSave /\ UNCHANGED ops

SpecStored == InitStored /\ [][NextStored]_vars

(***************************************************************************)
(* The session with components: buttons are added and deleted, and the     *)
(* embed is sent.  The dialogs are modal: one is open at a time.           *)
(***************************************************************************)
InitComponents ==
    /\ history_file = Absent
    /\ templates_file = Absent
    /\ settings_file = Absent
    /\ ConstructedOver
    /\ probe \in {Components(has, "idle", "none") : has \in BOOLEAN}

\* the inputs of ButtonInputs with a label of two characters
ShortButtonInputs == {in \in ButtonInputs : Len(in.label) = 2}

NextComponents ==
    \/ pc = "idle" /\ OpenAddButton
    \/ \E in \in ShortButtonInputs : AddButton(in)
    \/ CancelAddButton
    \/ \E i \in 1..MAX_BUTTONS : pc = "idle" /\ DeleteButton(i)
    \/ probe.pc = "idle" /\ Op(SendStart)
    \/ Op(CancelSendDialog)
    \/ \E in \in SendInputs, now \in 0..MaxClock : Op(ClickSend(in, now))
    \/ \E resp \in Responses : Op(Post(resp))
    \/ Op(CloseSuccessBox)

SpecComponents == InitComponents /\ [][NextComponents]_vars

(***************************************************************************)
(* The dispatching session: the user types a title and a colour and sends, *)
(* entering in the send dialog URLs with and without a scheme.             *)
(***************************************************************************)
\* the user edits the colour entry
TypeColor(c) ==
    /\ pc = "idle"
    /\ ui.color # c
    /\ ui' = [ui EXCEPT !.color = c]
    /\ obs' = Quiet
    /\ UNCHANGED <<heapVars, current_embed, history, templates, webhook_settings,
                   fileVars, pc, dlg, probe>>

\* colours the user can type: a name, digits that are not hex
ColorInputs == {<<"r", "e", "d">>, <<"#", "G", "G">>}

\* a webhook URL whose scheme is typed in capitals
UpperSchemeUrl == <<"H", "T", "T", "P", "S", ":", "/", "/">> \o WEBHOOK_MARK \o <<"1">>

\* send dialog entries: those of SendInputs, a webhook URL without a scheme
\* beside an https avatar, one with the scheme in capitals, an avatar URL that
\* is not http
DispatchInputs ==
    SendInputs \cup
    {[url |-> WEBHOOK_MARK \o <<"1">>, username |-> <<"w">>,
      avatar_url |-> HTTPS \o <<"a">>, remember |-> TRUE],
     [url |-> UpperSchemeUrl, username |-> <<>>, avatar_url |-> <<>>,
      remember |-> FALSE],
     [url |-> GoodUrl \o <<" ">>, username |-> <<" ", "v">>, avatar_url |-> <<>>,
      remember |-> TRUE],
     [url |-> GoodUrl, username |-> <<>>, avatar_url |-> FTP_X, remember |-> TRUE]}

NextDispatch ==
    \/ Op(TypeTitle(LongTitle))
    \/ \E c \in ColorInputs : Op(TypeColor(c))
    \/ Op(SendStart)
    \/ \E ans \in {"yes", "no", "cancel"} : Op(AnswerValidation(ans))
    \/ Op(CancelSendDialog)
    \/ \E in \in DispatchInputs, now \in 0..MaxClock : Op(ClickSend(in, now))
    \/ Op(PostBegin)
    \/ \E resp \in Responses : PostEnd(resp) /\ UNCHANGED ops
    \/ Op(CloseSuccessBox)
    \/ StartAutoSave

SpecDispatch == InitSends /\ [][NextDispatch]_vars

(***************************************************************************)
(* Properties of the history                                               *)
(***************************************************************************)
Min(a, b) == IF a <= b THEN a ELSE b

\* the history list by value
HistoryValues == [i \in 1..Len(history) |-> Deref(embedObj, listObj, history[i])]

\* the entries of the history file
StoredHistory == IF history_file.kind = "json" THEN history_file.data ELSE <<>>

\* C1, as stated: after obs.sent successful sends from an empty history, the
\* history (the list the program holds) has exactly min(sent, 50) entries
C1_HistoryHoldsMin == Len(history) = Min(obs.sent, HISTORY_KEEP)

\* C1, amended: after obs.sent successful sends from an empty history, the
\* stored history document holds exactly the min(sent, 50) most recent embeds,
\* most recent last; the list in memory is never cut, and holds the most
\* recent embeds too, between min(sent, 50) and sent of them
C1_StoredHistoryHoldsMin ==
    LET n == obs.sent
        k == Min(n, HISTORY_KEEP)
        m == Len(history)
    IN  /\ Len(StoredHistory) = k
        /\ \A i \in 1..k : StoredHistory[i].title = Digits(n - k + i)
        /\ m \in k..n
        /\ \A j \in 1..m : embedObj[history[j]].title = Digits(n - m + j)

\* more than 50 embeds were sent in one run of the program
C1_Witness ==
    /\ obs.sent > HISTORY_KEEP
    /\ Len(history) = obs.sent
    /\ Len(StoredHistory) = HISTORY_KEEP

\* C2: right after save_history ran (a successful send, clear_history), the
\* stored document has at most 50 entries, they are the last min(len, 50)
\* entries of the list in memory in the same order, and load_history of the
\* document yields exactly those entries
C2_SavedIsTailOfHistory ==
    obs.op \in {"send_ok", "clear_history"} =>
        LET n == Len(history)
            k == Min(n, 50)
        IN  /\ history_file.kind = "json"
            /\ Len(history_file.data) <= 50
            /\ Len(history_file.data) = k
            /\ \A i \in 1..k : history_file.data[i] = AsDict(HistoryValues[n - k + i])
            /\ LoadHistory(history_file, <<>>) = [i \in 1..k |-> HistoryValues[n - k + i]]

\* a save that had to drop the oldest entry
C2_Witness ==
    /\ obs.op = "send_ok"
    /\ Len(history) > 50
    /\ Len(history_file.data) = 50

\* HTTP 200 or 204
OkStatus(resp) == resp.kind = "response" /\ resp.status \in {200, 204}

\* a step of the try block of send_webhook: an answer of 200 or 204 ends with
\* one new entry, other outcomes change nothing
SendOutcomeStep ==
    pc \in {"askDebug", "successBox"} =>
        IF OkStatus(obs'.resp) /\ pc' = "idle"
        THEN /\ HistoryValues' = Append(HistoryValues, dlg.embed)
             /\ history'[Len(history')] # current_embed'
             /\ \A i \in 1..Len(history) : history'[i] # history'[Len(history')]
             /\ history_file'.kind = "json"
             /\ history_file'.data[Len(history_file'.data)] = AsDict(dlg.embed)
        ELSE /\ HistoryValues' = HistoryValues
             /\ history_file' = history_file

\* C3: in the try block of send_webhook, an answer of 200 or 204 ends with
\* exactly one new entry at the end of the history, a fresh copy of the embed
\* sent, and with the history saved; any other status and an exception leave
\* the history in memory and the history file as they were
C3_OnlySuccessAppends == [][SendOutcomeStep]_vars

\* a send was answered 400 after an earlier one had succeeded
C3_Witness ==
    /\ obs.op = "send_rejected"
    /\ obs.resp.status = 400
    /\ obs.sent = 1
    /\ Len(history) = 1

\* C4: one run of send_webhook issues at most one POST, whatever the answer,
\* and none when it is cancelled or has not got past its dialogs
C4_AtMostOnePost ==
    /\ obs.posts <= 1
    /\ obs.op \in {"send_started", "send_cancelled", "send_input_rejected"} => obs.posts = 0
    /\ pc \in {"askValidation", "sendDialog", "askDebug"} => obs.posts = 0
    /\ obs.op \in {"posted", "send_ok", "send_rejected", "send_error"} => obs.posts = 1

\* a send that failed in transport
C4_Witness ==
    /\ obs.op = "send_error"
    /\ obs.resp.kind = "exception"
    /\ obs.posts = 1

\* an editing operation on the current embed
EditingStep ==
    \/ AutoSave
    \/ \E in \in AddInputs : AddField(in)
    \/ \E in \in EditInputs : SaveField(in)
    \/ \E i \in 1..Len(CurFields) : DeleteField(i) \/ MoveFieldUp(i) \/ MoveFieldDown(i)
    \/ ClearAll

\* C5: no editing operation on the current embed changes the content of a
\* history entry
C5_HistoryEntriesImmutable == [][EditingStep => HistoryValues' = HistoryValues]_vars

\* the templates by value, as json.dump sees them
TemplateValues == [i \in 1..Len(templates) |-> TemplateValue(listObj, templates[i])]

\* C6: neither load_template nor an editing operation on the current embed
\* changes the templates
C6_TemplatesDetached ==
    [][(EditingStep \/ \E i \in 1..Len(templates) : LoadTemplate(i)) =>
           TemplateValues' = TemplateValues]_vars

(***************************************************************************)
(* Properties of the codec and the serializer                              *)
(***************************************************************************)
\* C7: an embed of 0 to 25 valid fields, encoded for the store and decoded
\* again, is the embed it was, its fields in the same order
C7_RoundTrip ==
    probe.kind = "codec" =>
        /\ probe.back = probe.embed
        /\ probe.tback = probe.embed
        /\ \A i \in 1..Len(probe.embed.fields) :
               probe.back.fields[i].name = Digits(i)

\* the round trip of an embed of 25 fields
C7_Witness ==
    /\ probe.kind = "codec"
    /\ Len(probe.embed.fields) = MAX_FIELDS
    /\ Len(probe.doc.fields) = MAX_FIELDS
    /\ ~IsRaised(probe.back)

\* the field document d read by its known keys, inline at its default when missing
KnownField(d) ==
    [cls |-> "EmbedField", name |-> d.name, value |-> d.value,
     inline |-> IF "inline" \in DOMAIN d THEN d.inline ELSE FALSE]

\* the embed document d read by its known keys, the missing ones at their defaults
KnownEmbed(d) ==
    [k \in EmbedKeys \cup {"cls"} |->
        IF k = "cls" THEN "Embed"
        ELSE IF k = "fields"
        THEN IF "fields" \in DOMAIN d
             THEN [i \in 1..Len(d.fields) |-> KnownField(d.fields[i])]
             ELSE <<>>
        ELSE IF k \in DOMAIN d THEN d[k]
        ELSE EmbedDefaults[k]]

\* C8: a stored document with an unknown extra key, or with a key missing,
\* decodes without failure to the embed its known keys describe, missing
\* attributes at their defaults
C8_ForwardCompatible ==
    probe.kind = "decode" /\ probe.doc # DocNoName =>
        /\ ~IsRaised(probe.item)
        /\ probe.item = KnownEmbed(probe.doc)

\* C9: when an item of the history document fails to decode, the history
\* after load_history is empty, however many items before it decoded; on an
\* unreadable file too; load_history always ends with a list, the empty one
\* or the one of all items
C9_FailureEmptiesHistory ==
    probe.kind = "load" =>
        /\ probe.file.kind \in {"absent", "corrupt"} => probe.history = <<>>
        /\ probe.file.kind = "json" =>
               LET data == probe.file.data
               IN  IF \E i \in 1..Len(data) : IsRaised(DecodeEmbed(data[i]))
                   THEN probe.history = <<>>
                   ELSE probe.history = [i \in 1..Len(data) |-> DecodeEmbed(data[i])]

\* a document whose first item decodes and whose second does not
C9_Witness ==
    /\ probe.kind = "load"
    /\ probe.file.kind = "json"
    /\ Len(probe.file.data) = 2
    /\ ~IsRaised(DecodeEmbed(probe.file.data[1]))
    /\ IsRaised(DecodeEmbed(probe.file.data[2]))
    /\ probe.history = <<>>

\* s starts with http:// or https://
HasHttpPrefix(s) ==
    \/ Len(s) >= 7 /\ SubSeq(s, 1, 7) = <<"h", "t", "t", "p", ":", "/", "/">>
    \/ Len(s) >= 8 /\ SubSeq(s, 1, 8) = <<"h", "t", "t", "p", "s", ":", "/", "/">>

\* the key k of payload object p, absent unless the attribute value v starts
\* with http:// or https://, and then holding v
UrlKey(p, k, v) ==
    IF HasHttpPrefix(v) THEN k \in DOMAIN p /\ p[k] = v ELSE k \notin DOMAIN p

\* the object under key k of payload p, or the empty object
Sub(p, k) == IF k \in DOMAIN p THEN p[k] ELSE EmptyDict

\* C10: every URL-bearing value of a payload of to_dict starts with http://
\* or https://, and an attribute that does not gives no key
C10_OnlyHttpUrls ==
    probe.kind = "to_dict" /\ ~IsRaised(probe.payload) =>
        LET e == probe.embed
            p == probe.payload
        IN  /\ UrlKey(p, "url", e.url)
            /\ IF HasHttpPrefix(e.thumbnail)
               THEN UrlKey(Sub(p, "thumbnail"), "url", e.thumbnail)
               ELSE "thumbnail" \notin DOMAIN p
            /\ IF HasHttpPrefix(e.image)
               THEN UrlKey(Sub(p, "image"), "url", e.image)
               ELSE "image" \notin DOMAIN p
            /\ UrlKey(Sub(p, "footer"), "icon_url", e.footer_icon)
            /\ UrlKey(Sub(p, "author"), "icon_url", e.author_icon)
            /\ UrlKey(Sub(p, "author"), "url", e.author_url)

\* thumbnail "ftp://x" beside an https image
C10_Witness ==
    /\ probe.kind = "to_dict"
    /\ probe.embed.thumbnail = FTP_X
    /\ probe.embed.image = HTTP \o <<"x">>
    /\ "thumbnail" \notin DOMAIN probe.payload
    /\ "image" \in DOMAIN probe.payload

(***************************************************************************)
(* Properties of the payload of to_dict                                    *)
(***************************************************************************)
\* C11: a payload of to_dict holds no key whose value is the empty string or
\* the empty object: title, description and url are non-empty when present,
\* and footer, author, thumbnail and image carry at least one sub-key, none
\* of them empty, whatever footer, footer_icon, author_icon and author_url are
C11_NoEmptyValues ==
    probe.kind = "to_dict" /\ ~IsRaised(probe.payload) =>
        LET p == probe.payload
        IN  /\ \A k \in {"title", "description", "url"} \cap DOMAIN p : Len(p[k]) > 0
            /\ \A k \in {"footer", "author", "thumbnail", "image"} \cap DOMAIN p :
                   /\ DOMAIN p[k] # {}
                   /\ \A j \in DOMAIN p[k] : Len(p[k][j]) > 0

\* the value of one hex digit, either case
HexDigitValue(c) ==
    CHOOSE n \in 0..15 :
        c \in {<<"0", "1", "2", "3", "4", "5", "6", "7", "8", "9",
                 "a", "b", "c", "d", "e", "f">>[n + 1],
               <<"0", "1", "2", "3", "4", "5", "6", "7", "8", "9",
                 "A", "B", "C", "D", "E", "F">>[n + 1]}

HexChars ==
    {"0", "1", "2", "3", "4", "5", "6", "7", "8", "9", "a", "b", "c", "d", "e", "f",
     "A", "B", "C", "D", "E", "F"}

\* c is "#" and six hex digits
IsRRGGBB(c) == Len(c) = 7 /\ c[1] = "#" /\ \A i \in 2..7 : c[i] \in HexChars

\* the base-16 value of the six digits of c
RRGGBBValue(c) ==
    HexDigitValue(c[2]) * 1048576 + HexDigitValue(c[3]) * 65536
    + HexDigitValue(c[4]) * 4096 + HexDigitValue(c[5]) * 256
    + HexDigitValue(c[6]) * 16 + HexDigitValue(c[7])

\* the payload colour of a colour #RRGGBB: present, within 24 bits, the
\* base-16 value of the six digits; no colour key for the empty colour
ColorKeyIsBase16(c, p) ==
    /\ IsRRGGBB(c) =>
            /\ ~IsRaised(p)
            /\ "color" \in DOMAIN p
            /\ p.color \in 0..16777215
            /\ p.color = RRGGBBValue(c)
    /\ c = <<>> => ~IsRaised(p) /\ "color" \notin DOMAIN p

\* C12, as stated: for a colour #RRGGBB the payload of to_dict has the colour
\* key, an integer in 0..2^24-1 equal to the base-16 value of RRGGBB, #5865F2
\* giving 5793266 and #3BA55C giving 3902050; an empty colour gives no key
C12_ColorAsStated ==
    probe.kind = "to_dict" =>
        /\ ColorKeyIsBase16(probe.embed.color, probe.payload)
        /\ probe.embed.color = DEFAULT_COLOR => probe.payload.color = 5793266
        /\ probe.embed.color = GREEN => probe.payload.color = 3902050

\* C12, amended: for a colour #RRGGBB the payload of to_dict has the colour
\* key, an integer in 0..2^24-1 equal to the base-16 value of RRGGBB, #5865F2
\* giving 5793266 and #3BA55C giving 3908956 (3902050 is #3B8A62); an empty
\* colour gives no colour key
C12_ColorIsBase16 ==
    probe.kind = "to_dict" =>
        /\ ColorKeyIsBase16(probe.embed.color, probe.payload)
        /\ probe.embed.color = DEFAULT_COLOR => probe.payload.color = 5793266
        /\ probe.embed.color = GREEN => probe.payload.color = 3908956
        /\ probe.embed.color = <<"#", "3", "B", "8", "A", "6", "2">> =>
               probe.payload.color = 3902050

\* the preset green was serialized
C12_Witness ==
    /\ probe.kind = "to_dict"
    /\ probe.embed.color = GREEN
    /\ probe.payload.color = 3908956

\* C13: the payload of to_dict has the timestamp key exactly when the flag of
\* the embed is true, its value is the clock reading at the call of to_dict,
\* so two calls at different readings give different values; the embed and
\* its stored document hold the flag alone, a boolean
C13_TimestampIsCallTime ==
    /\ probe.kind = "to_dict" /\ ~IsRaised(probe.payload) =>
        /\ probe.embed.timestamp \in BOOLEAN
        /\ "timestamp" \in DOMAIN probe.payload <=> probe.embed.timestamp
        /\ probe.embed.timestamp =>
            /\ probe.payload.timestamp = [iso |-> probe.now]
            /\ probe.before.payload.timestamp = [iso |-> probe.before.now]
            /\ probe.before.now # probe.now =>
                   probe.payload.timestamp # probe.before.payload.timestamp
    /\ probe.kind = "codec" =>
        /\ probe.doc.timestamp \in BOOLEAN
        /\ probe.doc.timestamp = probe.embed.timestamp
        /\ probe.back.timestamp = probe.embed.timestamp

\* one embed with the flag set, serialized at two clock readings
C13_Witness ==
    /\ probe.kind = "to_dict"
    /\ probe.calls = 2
    /\ probe.embed.timestamp
    /\ probe.before.now # probe.now
    /\ probe.payload.timestamp # probe.before.payload.timestamp

\* C14: the payload of to_dict has the fields key exactly when the field list
\* of the embed is not empty; the list under it is as long as the field list
\* and its i-th entry is the object of exactly name, value and inline of the
\* i-th field
C14_FieldsInOrder ==
    probe.kind = "to_dict" /\ ~IsRaised(probe.payload) =>
        LET fs == probe.embed.fields
            p == probe.payload
        IN  /\ "fields" \in DOMAIN p <=> Len(fs) > 0
            /\ Len(fs) > 0 =>
                /\ Len(p.fields) = Len(fs)
                /\ \A i \in 1..Len(fs) :
                    /\ DOMAIN p.fields[i] = {"name", "value", "inline"}
                    /\ p.fields[i].name = fs[i].name
                    /\ p.fields[i].value = fs[i].value
                    /\ p.fields[i].inline = fs[i].inline

\* an embed of 25 fields was serialized, the second field inline, the first not
C14_Witness ==
    /\ probe.kind = "to_dict"
    /\ Len(probe.embed.fields) = MAX_FIELDS
    /\ Len(probe.payload.fields) = MAX_FIELDS
    /\ probe.payload.fields[2].inline
    /\ ~probe.payload.fields[1].inline

(***************************************************************************)
(* Properties of validation                                                *)
(***************************************************************************)
\* the violations of errs that are about a field, and those about field i
OfFields(errs) == LET IsField(x) == x[1] = "Field" IN SelectSeq(errs, IsField)

OfField(errs, i) ==
    LET IsField(x) == x[1] = "Field" /\ x[2] = i IN SelectSeq(errs, IsField)

\* the violations of errs that say there are too many fields
TooMany(errs) == LET IsTooMany(x) == x[1] = "Too many fields" IN SelectSeq(errs, IsTooMany)

\* C15: Embed.validate returns every violation: with more than 25 fields
\* exactly one too-many-fields violation (none otherwise), and for each field
\* i every violation of its own validate() exactly once, in the order
\* validate() gave, marked with the field's 1-based number, all field
\* violations after all embed-level ones and in field order
C15_ValidateReportsAll ==
    probe.kind = "validate" =>
        LET errs == probe.errors
            fs == probe.embed.fields
            k == Len(errs) - Len(OfFields(errs))
        IN  /\ Len(TooMany(errs)) = IF Len(fs) > 25 THEN 1 ELSE 0
            /\ \A j \in 1..Len(errs) : errs[j][1] = "Field" <=> j > k
            /\ \A j \in 1..Len(errs) : errs[j][1] = "Field" => errs[j][2] \in 1..Len(fs)
            /\ \A i \in 1..Len(fs) :
                   [j \in 1..Len(OfField(errs, i)) |-> OfField(errs, i)[j][3]]
                       = FieldValidate(fs[i])
            /\ \A j \in (k + 1)..(Len(errs) - 1) : errs[j][2] <= errs[j + 1][2]

\* 26 fields, the first and the last breaking all four rules, under a title
\* that is too long: ten violations
C15_Witness ==
    /\ probe.kind = "validate"
    /\ Len(probe.embed.fields) = 26
    /\ Len(probe.embed.title) > MAX_TITLE
    /\ Len(OfField(probe.errors, 1)) = 4
    /\ Len(OfField(probe.errors, 26)) = 4
    /\ Len(probe.errors) = 10

\* s holds a character that is not whitespace
NonBlank(s) == \E i \in 1..Len(s) : s[i] \notin {" ", "\t", "\n"}

\* the rules of a field that f breaks
BrokenRules(f) ==
    {r \in {"Field name cannot be empty", "Field name too long",
            "Field value cannot be empty", "Field value too long"} :
        \/ r = "Field name cannot be empty" /\ ~NonBlank(f.name)
        \/ r = "Field name too long" /\ Len(f.name) > 256
        \/ r = "Field value cannot be empty" /\ ~NonBlank(f.value)
        \/ r = "Field value too long" /\ Len(f.value) > 1024}

\* C16: EmbedField.validate returns the empty list exactly when the name is
\* non-blank and at most 256 characters and the value is non-blank and at
\* most 1024 characters; otherwise it returns one violation for each rule
\* broken, and no other
C16_FieldValidateExact ==
    probe.kind = "field_validate" =>
        LET f == probe.field
            errs == probe.errors
        IN  /\ errs = <<>> <=>
                /\ NonBlank(f.name) /\ Len(f.name) <= 256
                /\ NonBlank(f.value) /\ Len(f.value) <= 1024
            /\ Len(errs) = Cardinality(BrokenRules(f))
            /\ {errs[j][1] : j \in 1..Len(errs)} = BrokenRules(f)

\* a blank name of 257 characters and a blank value of 1025: four violations
C16_Witness ==
    /\ probe.kind = "field_validate"
    /\ Len(probe.field.name) = 257
    /\ Len(probe.field.value) = 1025
    /\ Len(probe.errors) = 4

(***************************************************************************)
(* Properties of the field list                                            *)
(***************************************************************************)
\* C17: in every state of the editor the current embed has at most 25
\* fields, whatever add, edit, delete, move, clear all, load template and
\* restore from history did, the template or history entry read from a
\* stored document or not
C17_AtMostMaxFields == Len(CurFields) <= 25

(***************************************************************************)
(* Properties of the buttons                                               *)
(***************************************************************************)
\* C18: for every MessageButton of style link, to_dict gives the style code
\* 5, has the url key and has no custom_id key
C18_LinkButtonWire ==
    probe.kind = "button_to_dict" /\ probe.button.style = "link" =>
        /\ probe.payload.style = 5
        /\ "url" \in DOMAIN probe.payload
        /\ "custom_id" \notin DOMAIN probe.payload

\* the character c of a label of ProbeLabels in lower case, a space as an
\* underscore
IdChar(c) ==
    CASE c = " " -> "_"
      [] c = "G" -> "g"
      [] c = "U" -> "u"
      [] c = "O" -> "o"
      [] c = "K" -> "k"
      [] OTHER -> c

\* the style codes of the buttons that are not links
NonLinkCode == [primary |-> 1, secondary |-> 2, success |-> 3, danger |-> 4]

\* C19: for every MessageButton of style primary, secondary, success or
\* danger, to_dict gives the style code 1, 2, 3 or 4, a custom_id that is
\* "btn_" and the label in lower case with every space an underscore (so
\* equal labels give equal identifiers), and no url key, a url set or not
C19_NonLinkButtonWire ==
    probe.kind = "button_to_dict" /\ probe.button.style \in DOMAIN NonLinkCode =>
        LET b == probe.button
            p == probe.payload
        IN  /\ p.style = NonLinkCode[b.style]
            /\ "url" \notin DOMAIN p
            /\ "custom_id" \in DOMAIN p
            /\ Len(p.custom_id) = 4 + Len(b.label)
            /\ SubSeq(p.custom_id, 1, 4) = <<"b", "t", "n", "_">>
            /\ \A i \in 1..Len(b.label) : p.custom_id[4 + i] = IdChar(b.label[i])
            /\ \A c \in ProbeButtons :
                   c.style \in DOMAIN NonLinkCode /\ c.label = b.label =>
                       ButtonToDict(c).custom_id = p.custom_id

\* a danger button labelled "Go Up" with a url set: code 4, btn_go_up, no url
C19_Witness ==
    /\ probe.kind = "button_to_dict"
    /\ probe.button.style = "danger"
    /\ probe.button.label = <<"G", "o", " ", "U", "p">>
    /\ probe.button.url # <<>>
    /\ probe.payload.style = 4
    /\ probe.payload.custom_id = <<"b", "t", "n", "_", "g", "o", "_", "u", "p">>
    /\ "url" \notin DOMAIN probe.payload

\* the invariants of a held button
ButtonWellFormed(b) ==
    /\ Len(b.label) \in 1..80
    /\ b.style = "link" => Len(b.url) > 0

\* C20: every button of the session's button list has a label of 1 to 80
\* characters and, if it is a link, a non-empty url; MessageButton.validate
\* reports "Link buttons require a URL" exactly when the style is link and
\* the url is empty; the Add Button dialog adds nothing when validate of the
\* entered button is non-empty, and adds that button at the end otherwise
C20_HeldButtonsWellFormed ==
    /\ probe.kind = "components" =>
        /\ \A i \in 1..Len(probe.buttons) : ButtonWellFormed(probe.buttons[i])
        /\ probe.last \in {"label required", "url required", "validation error", "added"} =>
            LET in == probe.in
                entered == MessageButton(Strip(in.label), Strip(in.url), in.style,
                                         Strip(in.emoji), FALSE)
            IN  IF ButtonValidate(entered) # <<>>
                THEN probe.buttons = probe.before /\ probe.last # "added"
                ELSE probe.buttons = Append(probe.before, entered)
    /\ probe.kind = "button_validate" =>
        ((\E j \in 1..Len(probe.errors) : probe.errors[j][1] = "Link buttons require a URL")
            <=> (probe.button.style = "link" /\ probe.button.url = <<>>))

\* a session holding a link button, in whose dialog a label of 81
\* characters was then refused
C20_Witness ==
    /\ probe.kind = "components"
    /\ probe.last = "validation error"
    /\ Len(probe.in.label) = 81
    /\ probe.buttons = probe.before
    /\ \E i \in 1..Len(probe.buttons) : probe.buttons[i].style = "link"

\* C21: whatever add-button, delete-button, add-select-menu and
\* delete-select-menu did, the session holds at most 5 buttons and at most
\* one select menu, and every held select menu has 1 to 25 options
C21_ComponentCaps ==
    /\ probe.kind = "components" => Len(probe.buttons) <= 5
    /\ probe.kind = "menus" =>
        /\ Len(probe.select_menus) <= 1
        /\ \A i \in 1..Len(probe.select_menus) :
               Len(probe.select_menus[i].options) \in 1..25

\* a session holding a menu of 25 options, a second menu refused
C21_Witness ==
    /\ probe.kind = "menus"
    /\ Len(probe.select_menus) = 1
    /\ Len(probe.select_menus[1].options) = 25
    /\ probe.last = "limit reached"

\* a session holding 5 buttons, a sixth refused
FullOfButtons ==
    /\ probe.kind = "components"
    /\ Len(probe.buttons) = 5
    /\ probe.last = "limit reached"

SchemeCheckedStep ==
    obs'.posts > obs.posts /\ obs'.resp.kind = "response" =>
        /\ HasHttpPrefix(dlg.url)
        /\ "avatar_url" \in DOMAIN dlg.payload => HasHttpPrefix(dlg.payload.avatar_url)

\* C23: no POST is issued when the webhook URL entered does not start with
\* http:// or https://, nor when a non-blank avatar URL entered does not
C23_NoPostWithoutScheme == [][SchemeCheckedStep]_vars

\* C24: no send attempt ends in an exception escaping validate() or to_dict():
\* every attempt ends cancelled, rejected, posted or with an error response
C24_SendAttemptClassified == obs.op # "send_crashed"

\* a step taken while requests.post is in flight completes the POST: the timer
\* callback does not run and the embed is not touched
PostInFlightStep ==
    pc = "posting" => /\ probe' = probe
                      /\ embedObj' = embedObj
                      /\ pc' \in {"successBox", "idle"}

OverrideStep ==
    /\ obs'.posts > obs.posts /\ EmbedValidate(dlg.embed) # <<>> => dlg.overridden
    /\ pc = "askValidation" /\ pc' = "idle" =>
          /\ obs'.op = "send_cancelled"
          /\ obs'.posts = obs.posts
          /\ history' = history
          /\ history_file' = history_file
          /\ webhook_settings' = webhook_settings
          /\ settings_file' = settings_file

\* C26: an embed whose validate() is non-empty is POSTed only after the user
\* confirmed "send anyway" in the same attempt; no or cancel ends the attempt
\* with no POST and no change to history or saved settings
C26_PostOnlyIfOverridden == [][OverrideStep]_vars

\* an embed with an over-long title was posted after "send anyway"
C26_Witness ==
    /\ obs.op = "posted"
    /\ pc = "successBox"
    /\ dlg.overridden
    /\ EmbedValidate(dlg.embed) # <<>>

\* the record send_webhook keeps of a filled result_data
SettingsOf(result_data) ==
    [url |-> result_data.url, username |-> result_data.username,
     avatar_url |-> result_data.avatar_url]

SettingsKept == webhook_settings' = webhook_settings /\ settings_file' = settings_file

\* an accepted dialog writes its trimmed entries, in memory and on disk, if
\* "remember" is checked and nothing otherwise, also when to_dict() then
\* raises; every other step leaves the settings alone
SettingsStep ==
    /\ pc = "sendDialog" /\ pc' = "askDebug" =>
          IF dlg'.result_data.remember
          THEN /\ webhook_settings' = SettingsOf(dlg'.result_data)
               /\ settings_file' = Json(webhook_settings')
          ELSE SettingsKept
    /\ pc = "sendDialog" /\ obs'.op = "send_crashed" =>
          \/ SettingsKept
          \/ \E in \in DispatchInputs :
                /\ in.remember
                /\ SendRejection(in) = ""
                /\ webhook_settings' = SettingsOf(ResultData(in))
                /\ settings_file' = Json(webhook_settings')
    /\ ~(pc = "sendDialog" /\ obs'.op \in {"send_confirmed", "send_crashed"}) =>
          SettingsKept

\* C27 (as amended): the persisted settings are the trimmed url, username and
\* avatar_url of the most recent accepted send dialog with "remember" checked,
\* whatever the POST then does; remember unchecked, a cancelled dialog, a
\* rejected input and every other handler leave them unchanged
C27_SettingsLastWriteWins == [][SettingsStep]_vars

\* entries with surrounding blanks were remembered trimmed, and the POST failed
C27_Witness ==
    /\ obs.op \in {"send_error", "send_rejected"}
    /\ webhook_settings = [url |-> GoodUrl, username |-> <<"v">>, avatar_url |-> <<>>]
    /\ settings_file = Json(webhook_settings)

\* C27 (as stated): the persisted settings are the defaults or the entries of a
\* send dialog exactly as entered
C27_SettingsAsEntered ==
    \/ settings_file = Absent
    \/ \E in \in DispatchInputs :
          settings_file = Json([url |-> in.url, username |-> in.username,
                                avatar_url |-> in.avatar_url])

(***************************************************************************)
(* Properties of the field order                                           *)
(***************************************************************************)
\* how many times x occurs in the list s
Occurrences(s, x) == Cardinality({j \in 1..Len(s) : s[j] = x})

SameMultiset(s, t) ==
    /\ Len(s) = Len(t)
    /\ \A j \in 1..Len(s) : Occurrences(s, s[j]) = Occurrences(t, s[j])

\* C28: move_field_up(i) with a field above exchanges positions i-1 and i and
\* leaves the rest; move_field_up of the first and move_field_down of the last
\* change nothing; move_field_down(i) then move_field_up(i+1) restores the
\* list; after any moves the list has the same length and the same multiset
C28_MovesOnlyReorder ==
    probe.kind = "order" /\ probe.op # "none" =>
        LET fs == probe.fields
            was == probe.before
            i == probe.at
        IN  /\ probe.op = "up" /\ i > 1 =>
                  /\ Len(fs) = Len(was)
                  /\ fs[i - 1] = was[i]
                  /\ fs[i] = was[i - 1]
                  /\ \A j \in 1..Len(was) : j \notin {i - 1, i} => fs[j] = was[j]
            /\ probe.op = "up" /\ i = 1 => fs = was
            /\ probe.op = "down" /\ i = Len(was) => fs = was
            /\ probe.op = "up" /\ probe.op2 = "down" /\ i = probe.at2 + 1 =>
                  fs = probe.before2
            /\ SameMultiset(fs, probe.orig)

\* of a, b, a, c the third field was moved down and the fourth back up
C28_Witness ==
    /\ probe.kind = "order"
    /\ probe.orig = <<"a", "b", "a", "c">>
    /\ probe.op = "up" /\ probe.at = 4
    /\ probe.op2 = "down" /\ probe.at2 = 3
    /\ probe.before = <<"a", "b", "c", "a">>
    /\ probe.fields = probe.orig

(***************************************************************************)
(* Properties of the template gallery                                      *)
(***************************************************************************)
\* a load_template step loads: the dialog closes on the template's embed, and
\* the templates are left such that save_templates writes them all
LoadStep(i) ==
    LoadTemplate(i) =>
        /\ pc' = "idle"
        /\ SaveTemplates(listObj', templates') # Corrupt

\* C29: every load of a stored template succeeds, a repeated one too, and
\* save_templates after a load writes a complete templates document
C29_LoadRepeatable == [][\A i \in 1..Len(templates) : LoadStep(i)]_vars

\* a template with fields was loaded and is loaded again
C29_SecondLoad ==
    [][\A i \in 1..Len(templates) :
          LoadTemplate(i) /\ ~Serializable(TemplateValue(listObj, templates[i]))
              => pc' = "idle"]_vars

\* the templates are the three defaults, in memory and in templates.json
DefaultsRecreated ==
    /\ TemplateValues = DefaultTemplateDocs
    /\ templates_file = Json(DefaultTemplateDocs)

\* the gallery never lists nothing; show_templates on an empty list, at the
\* first start or after the last template was deleted, re-creates and saves
\* the defaults; only a restart empties the list
GalleryStep ==
    /\ pc' = "gallery" => templates' # <<>>
    /\ templates = <<>> /\ ShowTemplates => DefaultsRecreated'
    /\ Len(templates) = 1 /\ DeleteTemplate(1) => DefaultsRecreated'
    /\ templates # <<>> /\ templates' = <<>> => Restart

\* C30: once the gallery has been shown the templates list is never empty:
\* whenever show_templates runs with an empty list the three defaults are
\* re-created and persisted
C30_TemplatesNeverEmpty == [][GalleryStep]_vars

\* the gallery was opened for the first time, with no templates file
C30_Witness ==
    /\ pc = "gallery"
    /\ ops = 1
    /\ Len(templates) = 3
    /\ DefaultsRecreated

====
